---- MODULE Spec2Model ----
(***************************************************************************)
(* Model of the request dispatch pipeline of zod-jsonrpc: the server's     *)
(* request() entry point (single and batch), method lookup, params and     *)
(* result validation, handler invocation and error-to-response conversion. *)
(***************************************************************************)
EXTENDS Integers, Sequences, FiniteSets, TLC

(***************************************************************************)
(* Bounds                                                                  *)
(***************************************************************************)
\* longest batch array handed to request()
MaxBatch == 2

\* the most servers created: the base server and its extensions
MaxServers == 3

\* the most clients created: the default client and its variants
MaxClients == 2

\* the number of clients in the specification of the mode switches
MaxModes == 5

\* the number of clients in the specification of server.createClient
MaxGenerated == 4

(***************************************************************************)
(* JavaScript values.  Every value is a record with a kind field k, so     *)
(* that values of different JavaScript types are comparable and distinct   *)
(* (the number 1 and the string "1" are different values).                 *)
(***************************************************************************)
Undefined == [k |-> "undefined", v |-> ""]
Null == [k |-> "null", v |-> ""]
Num(s) == [k |-> "number", v |-> s]
Str(s) == [k |-> "string", v |-> s]
Bool(s) == [k |-> "boolean", v |-> s]
\* an array, named by its content: Arr("Dan") is ['Dan'], Arr("123") is [123]
Arr(s) == [k |-> "array", v |-> s]
\* a plain `new Error(message)`, which is not a JSONRPCError
PlainError(s) == [k |-> "Error", v |-> s]

(***************************************************************************)
(* Error taxonomy: JSONRPCError and its constructors.                      *)
(***************************************************************************)
\* mutant: the separator is written whether or not there is a detail
formatErrorMessage_alwaysDetail(errorType, message) == errorType \o ": " \o message

\* `message ? `${errorType}: ${message}` : errorType`; "" is the absent detail
formatErrorMessage(errorType, message) ==
  IF message # "" THEN errorType \o ": " \o message ELSE errorType

\* new JSONRPCError(code, message, data); k = "JSONRPCError" is what
\* `instanceof JSONRPCError` tests
JSONRPCError(code, message, data) ==
  [k |-> "JSONRPCError", code |-> code, message |-> message, data |-> data]

ParseError(message, data) == JSONRPCError(-32700, formatErrorMessage("Parse error", message), data)
\* mutant: the code of another constructor
InvalidRequest_wrongCode(message, data) == JSONRPCError(-32601, formatErrorMessage("Invalid Request", message), data)
InvalidRequest(message, data) == JSONRPCError(-32600, formatErrorMessage("Invalid Request", message), data)
MethodNotFound(message, data) == JSONRPCError(-32601, formatErrorMessage("Method not found", message), data)
InvalidParams(message, data) == JSONRPCError(-32602, formatErrorMessage("Invalid params", message), data)
InternalError(message, data) == JSONRPCError(-32603, formatErrorMessage("Internal error", message), data)

\* the TypeError the runtime raises on `undefined['~standard']`
TypeErrorValue == PlainError("TypeError: Cannot read properties of undefined")

(***************************************************************************)
(* Outcomes of a computation: it returns a value or throws one.            *)
(***************************************************************************)
Return(v) == [k |-> "return", v |-> v]
Throw(e) == [k |-> "throw", v |-> e]

(***************************************************************************)
(* Message schemas.  A validator returns [issues, value]: issues is        *)
(* NoIssues and value the parsed output, or issues is non-empty.           *)
(***************************************************************************)
NoIssues == ""

Ok(value) == [issues |-> NoIssues, value |-> value]
Issues(i) == [issues |-> i, value |-> Undefined]

\* the jsonrpc member: the literal '2.0', filled in when the member is absent
\* (request() accepts { id, method, params } and answers with jsonrpc '2.0';
\* callMethod and buildErrorResponse parse objects without the member)
JsonrpcMember(v) ==
  IF v = Undefined \/ v = Str("2.0") THEN Ok(Str("2.0")) ELSE Issues("jsonrpc")

\* id: z.union([z.number(), z.string(), z.null()])
IsIdValue(v) == v.k \in {"number", "string", "null"}

\* params: z.union([z.array(z.any()), z.record(z.string(), z.any())]).optional()
IsParamsValue(v) == v = Undefined \/ v.k \in {"array", "record"}

\* JSONRPCRequestSchema: jsonrpc, method: string, params?, id?
JSONRPCRequestSchema(input) ==
  IF input.k # "object" THEN Issues("expected object")
  ELSE IF JsonrpcMember(input.jsonrpc).issues # NoIssues THEN Issues("jsonrpc")
  ELSE IF input.method.k # "string" THEN Issues("method")
  ELSE IF ~IsParamsValue(input.params) THEN Issues("params")
  ELSE IF ~(input.id = Undefined \/ IsIdValue(input.id)) THEN Issues("id")
  ELSE Ok([k |-> "object", jsonrpc |-> JsonrpcMember(input.jsonrpc).value,
           method |-> input.method, params |-> input.params, id |-> input.id])

\* JSONRPCErrorSchema: { code: number, message: string, data: unknown }; its
\* output is the plain ErrorObject, for a JSONRPCError instance and for an
\* ErrorObject alike (handleArrayRequest parses responses a second time)
JSONRPCErrorSchema(input) ==
  IF input.k \in {"JSONRPCError", "ErrorObject"}
    THEN Ok([k |-> "ErrorObject", code |-> input.code, message |-> input.message,
             data |-> input.data])
    ELSE Issues("error")

\* JSONRPCResponseSchema: jsonrpc, result?: any, error?: ErrorObject,
\* id: number | string | null (required)
JSONRPCResponseSchema(input) ==
  IF input.k # "object" THEN Issues("expected object")
  ELSE IF JsonrpcMember(input.jsonrpc).issues # NoIssues THEN Issues("jsonrpc")
  ELSE IF input.error # Undefined /\ JSONRPCErrorSchema(input.error).issues # NoIssues
    THEN Issues("error")
  ELSE IF ~IsIdValue(input.id) THEN Issues("id")
  ELSE Ok([k |-> "object", jsonrpc |-> JsonrpcMember(input.jsonrpc).value,
           result |-> input.result,
           error |-> IF input.error = Undefined THEN Undefined
                     ELSE JSONRPCErrorSchema(input.error).value,
           id |-> input.id])

\* mutant: malformed elements are left out instead of failing the array
JSONRPCRequestBatchSchema_dropsMalformed(input) ==
  IF input.k # "batch" THEN Issues("expected array")
  ELSE LET wellFormed == SelectSeq(input.items,
                           LAMBDA e : JSONRPCRequestSchema(e).issues = NoIssues) IN
       Ok([k |-> "batch",
           items |-> [i \in 1..Len(wellFormed) |->
                        JSONRPCRequestSchema(wellFormed[i]).value]])

\* JSONRPCRequestBatchSchema = z.array(JSONRPCRequestSchema): every element
\* must pass; the output is the array of the elements' outputs
JSONRPCRequestBatchSchema(input) ==
  IF input.k # "batch" THEN Issues("expected array")
  ELSE IF \E i \in 1..Len(input.items) :
            JSONRPCRequestSchema(input.items[i]).issues # NoIssues
    THEN Issues("element")
  ELSE Ok([k |-> "batch",
           items |-> [i \in 1..Len(input.items) |->
                        JSONRPCRequestSchema(input.items[i]).value]])

\* JSONRPCResponseBatchSchema = z.array(JSONRPCResponseSchema)
JSONRPCResponseBatchSchema(input) ==
  IF input.k # "batch" THEN Issues("expected array")
  ELSE IF \E i \in 1..Len(input.items) :
            JSONRPCResponseSchema(input.items[i]).issues # NoIssues
    THEN Issues("element")
  ELSE Ok([k |-> "batch",
           items |-> [i \in 1..Len(input.items) |->
                        JSONRPCResponseSchema(input.items[i]).value]])

(***************************************************************************)
(* User schemas (the StandardSchema contract).  A schema is a record       *)
(* [kind, async]; StandardValidate is schema['~standard'].validate(input). *)
(***************************************************************************)
Schema(kind) == [k |-> "schema", kind |-> kind, async |-> FALSE]

Names == {"Dan", "Andrea"}

StandardValidate(schema, input) ==
  CASE schema.kind = "JSONRPCRequest" -> JSONRPCRequestSchema(input)
    [] schema.kind = "JSONRPCResponse" -> JSONRPCResponseSchema(input)
    [] schema.kind = "JSONRPCRequestBatch" -> JSONRPCRequestBatchSchema(input)
    [] schema.kind = "JSONRPCResponseBatch" -> JSONRPCResponseBatchSchema(input)
    [] schema.kind = "tuple_string" ->
         \* z.tuple([z.string()])
         IF input.k = "array" /\ input.v \in Names THEN Ok(input)
         ELSE Issues("invalid_type:tuple")
    [] schema.kind = "void" ->
         \* z.void()
         IF input = Undefined THEN Ok(Undefined) ELSE Issues("invalid_type:void")
    [] schema.kind = "string" ->
         \* z.string()
         IF input.k = "string" THEN Ok(input) ELSE Issues("invalid_type:string")
    [] schema.kind = "boolean" ->
         \* z.boolean()
         IF input.k = "boolean" THEN Ok(input) ELSE Issues("invalid_type:boolean")
    [] schema.kind = "tuple_string_transform" ->
         \* z.tuple([z.string()]).transform(([s]) => [`${s}!`])
         IF input.k = "array" /\ input.v # "123" THEN Ok(Arr(input.v \o "!"))
         ELSE Issues("invalid_type:tuple")
    [] schema.kind = "string_transform" ->
         \* z.string().transform(s => `Result: ${s}`)
         IF input.k = "string" THEN Ok(Str("Result: " \o input.v))
         ELSE Issues("invalid_type:string")
    [] schema.kind = "pipe_tuple_transform" ->
         \* z.pipe(z.tuple([z.string()]), z.transform(([val]) => ({ transformed: val })))
         IF input.k = "array" /\ input.v # "123"
           THEN Ok([k |-> "record", transformed |-> Str(input.v)])
           ELSE Issues("invalid_type:tuple")
    [] OTHER -> Issues("invalid_schema")

(***************************************************************************)
(* Validation adapter.                                                     *)
(***************************************************************************)
AsyncValidationError ==
  InternalError("Asynchronous validation is not supported in @danscan/zod-jsonrpc", Undefined)

\* mutant: a pending result is waited for
safeParse_awaitsPending(schema, input) ==
  IF schema.k # "schema" THEN Throw(TypeErrorValue)
  ELSE LET result == StandardValidate(schema, input) IN
       IF result.issues # NoIssues
         THEN Return([success |-> FALSE, data |-> Undefined, issues |-> result.issues])
         ELSE Return([success |-> TRUE, data |-> result.value, issues |-> NoIssues])

\* safeParse(schema, input): returns { data } or { issues }; throws when the
\* schema reports a pending result, and when schema is not an object at all
safeParse(schema, input) ==
  IF schema.k # "schema" THEN Throw(TypeErrorValue)
  ELSE IF schema.async THEN Throw(AsyncValidationError)
  ELSE LET result == StandardValidate(schema, input) IN
       IF result.issues # NoIssues
         THEN Return([success |-> FALSE, data |-> Undefined, issues |-> result.issues])
         ELSE Return([success |-> TRUE, data |-> result.value, issues |-> NoIssues])

\* parse(schema, input): returns the output value or throws
parse(schema, input) ==
  IF schema.k # "schema" THEN Throw(TypeErrorValue)
  ELSE IF schema.async THEN Throw(AsyncValidationError)
  ELSE LET result == StandardValidate(schema, input) IN
       IF result.issues # NoIssues
         THEN Throw(PlainError(result.issues))
         ELSE Return(result.value)

(***************************************************************************)
(* Method registry and handlers.                                           *)
(***************************************************************************)
MethodDef(paramsSchema, resultSchema, handler) ==
  [k |-> "method", paramsSchema |-> paramsSchema, resultSchema |-> resultSchema,
   handler |-> handler]

\* what a handler may do with validated params: the set of its outcomes
Handler(handler, params) ==
  CASE handler = "greet" -> {Return(Str("Hello, " \o params.v \o "!"))}
    [] handler = "flaky" ->
         {Return(Str("ok")),
          Return(Num("123")),
          Throw(InternalError("Intentional test error", Str("test data"))),
          Throw(InvalidParams("Age cannot be negative", Str("age"))),
          Throw(PlainError("Something went wrong"))}
    [] handler = "noop" -> {Return(Undefined)}
    [] handler = "hello" -> {Return(Str("Hello, " \o params.v \o "!"))}
    [] handler = "bye" -> {Return(Str("Goodbye, " \o params.v \o "!"))}
    [] handler = "first" -> {Return(Str(params.v))}
    [] handler = "isDan" ->
         {Return(Bool(IF params.transformed = Str("Dan") THEN "true" ELSE "false"))}
    [] OTHER -> {}

\* the registry handed to createServer
ServerMethods ==
  [name \in {"greeting", "flaky", "voidMethod"} |->
     CASE name = "greeting" -> MethodDef(Schema("tuple_string"), Schema("string"), "greet")
       [] name = "flaky" -> MethodDef(Schema("void"), Schema("string"), "flaky")
       [] name = "voidMethod" -> MethodDef(Schema("void"), Schema("void"), "noop")]

\* definitions handed to extend(): a new method; a new definition of that
\* method together with one of a method of the base server
DefsA ==
  [name \in {"newMethod"} |->
     MethodDef(Schema("tuple_string"), Schema("string"), "hello")]

DefsB ==
  [name \in {"newMethod", "greeting"} |->
     MethodDef(Schema("tuple_string"), Schema("string"), "bye")]

\* a method named like a member of Object.prototype
DefsC ==
  [name \in {"toString"} |->
     MethodDef(Schema("tuple_string"), Schema("string"), "hello")]

ExtensionDefs == {DefsA, DefsB, DefsC}

\* a method named like one of the mode switches of a client
DefsRaw ==
  [name \in {"raw"} |->
     MethodDef(Schema("void"), Schema("string"), "flaky")]

\* the definitions of the servers that clients are generated from
GeneratedDefs == {DefsA, DefsRaw}

\* methods whose schemas change the value they accept: one whose params and
\* result schemas can be applied to their own output, and one whose params
\* schema cannot
DefsTransform ==
  [name \in {"normalize", "transform"} |->
     CASE name = "normalize" ->
            MethodDef(Schema("tuple_string_transform"), Schema("string_transform"), "first")
       [] name = "transform" ->
            MethodDef(Schema("pipe_tuple_transform"), Schema("boolean"), "isDan")]

\* a schema whose validate returns a Promise
AsyncSchema(kind) == [k |-> "schema", kind |-> kind, async |-> TRUE]

\* a method whose params schema is asynchronous, and one whose result schema is
DefsAsync ==
  [name \in {"asyncParams", "asyncResult"} |->
     CASE name = "asyncParams" ->
            MethodDef(AsyncSchema("tuple_string"), Schema("string"), "greet")
       [] name = "asyncResult" ->
            MethodDef(Schema("tuple_string"), AsyncSchema("string"), "greet")]

\* the definitions of the servers whose generated clients are bound to them
RoundTripDefs == {DefsTransform, DefsRaw, DefsAsync}

\* mutant: the definitions already there win
Merge_leftBiased(methods, defs) ==
  [name \in DOMAIN methods \cup DOMAIN defs |->
     IF name \in DOMAIN methods THEN methods[name] ELSE defs[name]]

\* { ...methods, ...defs }
Merge(methods, defs) ==
  [name \in DOMAIN methods \cup DOMAIN defs |->
     IF name \in DOMAIN defs THEN defs[name] ELSE methods[name]]

\* servers[s].extend(defs): the servers there are afterwards, the new one
\* last
extend(servers, s, defs) == Append(servers, Merge(servers[s], defs))

\* members every object literal inherits from Object.prototype
ObjectPrototypeKeys == {"toString", "constructor", "hasOwnProperty", "valueOf"}
PrototypeMember(name) == [k |-> "function", v |-> name]

\* methods[name]: an own key, else an inherited member, else undefined
Lookup(methods, name) ==
  IF name \in DOMAIN methods THEN methods[name]
  ELSE IF name \in ObjectPrototypeKeys THEN PrototypeMember(name)
  ELSE Undefined

\* value.member, undefined when the value has no such member
Member(value, member) ==
  IF member \in DOMAIN value THEN value[member] ELSE Undefined

(***************************************************************************)
(* Dispatch engine.                                                        *)
(***************************************************************************)
\* mutant: the id is dropped
OrNull_alwaysNull(id) == Null

\* id ?? null
OrNull(id) == IF id \in {Undefined, Null} THEN Null ELSE id

\* mutant: the thrown value is not kept as data
buildErrorResponse_dropsData(error, id) ==
  parse(Schema("JSONRPCResponse"),
        [k |-> "object", jsonrpc |-> Undefined, result |-> Undefined,
         error |-> IF error.k = "JSONRPCError" THEN error
                   ELSE InternalError("", Undefined),
         id |-> OrNull(id)])

\* buildErrorResponse(error, id)
buildErrorResponse(error, id) ==
  parse(Schema("JSONRPCResponse"),
        [k |-> "object", jsonrpc |-> Undefined, result |-> Undefined,
         error |-> IF error.k = "JSONRPCError" THEN error
                   ELSE InternalError("", error),
         id |-> OrNull(id)])

\* mutant: id null is taken for a notification
isNotificationRequest_orNull(request) == request.id \in {Undefined, Null}

\* const isNotificationRequest = request.id === undefined
isNotificationRequest(request) == request.id = Undefined

shouldReturnResponse(request) == ~isNotificationRequest(request)

\* mutant: the result is not validated
callMethodTry_noResultCheck(method, outcome, id) ==
  IF outcome.k = "throw" THEN outcome
  ELSE parse(Schema("JSONRPCResponse"),
             [k |-> "object", jsonrpc |-> Undefined, result |-> outcome.v,
              error |-> Undefined, id |-> id])

\* the try block of callMethod once the handler has settled with `outcome`
callMethodTry(method, outcome, id) ==
  IF outcome.k = "throw" THEN outcome
  ELSE LET checked == safeParse(method.resultSchema, outcome.v) IN
       IF checked.k = "throw" THEN checked
       ELSE IF checked.v.issues # NoIssues
         THEN Throw(InternalError("Invalid result",
                [k |-> "record", issues |-> checked.v.issues, value |-> outcome.v]))
       ELSE parse(Schema("JSONRPCResponse"),
                  [k |-> "object", jsonrpc |-> Undefined, result |-> checked.v.data,
                   error |-> Undefined, id |-> id])

\* callMethod(method, params, id) from the point where the handler settles
callMethod(method, outcome, id) ==
  LET attempt == callMethodTry(method, outcome, id) IN
  IF attempt.k = "throw" THEN buildErrorResponse(attempt.v, id) ELSE attempt

\* one dispatched request: pending while its handler runs, fulfilled with a
\* Response or undefined, or rejected with the value thrown
NoOutcome == [k |-> "none", v |-> Undefined]
Item(request, status, params, value, outcome) ==
  [request |-> request, status |-> status, params |-> params, value |-> value,
   outcome |-> outcome]

\* the promise of an async function whose body ended with `result`
Settled(request, params, result, outcome) ==
  IF result.k = "throw"
    THEN Item(request, "rejected", params, result.v, outcome)
    ELSE Item(request, "fulfilled", params, result.v, outcome)

\* mutant: notifications are answered too
ResponseUnlessNotification_always(request, response) == response

\* shouldReturnResponse ? <response> : undefined
ResponseUnlessNotification(request, response) ==
  IF shouldReturnResponse(request) THEN response ELSE Return(Undefined)

\* mutant: the error data holds the issues only
invalidParamsError_noValue(request, paramsIssues) ==
  InvalidParams("Invalid params for method " \o request.method.v,
                [k |-> "record", issues |-> paramsIssues])

\* the InvalidParams error of parseRequestAndCallMethod
invalidParamsError(request, paramsIssues) ==
  InvalidParams("Invalid params for method " \o request.method.v,
                [k |-> "record", issues |-> paramsIssues, value |-> request.params])

\* parseRequestAndCallMethod up to the first await: lookup, params
\* validation and the call of the handler
parseRequestAndCallMethod(methods, request) ==
  LET method == Lookup(methods, request.method.v) IN
  IF method = Undefined
    THEN Settled(request, Undefined,
                 ResponseUnlessNotification(request,
                   buildErrorResponse(MethodNotFound("", Undefined), request.id)),
                 NoOutcome)
  ELSE LET checked == safeParse(Member(method, "paramsSchema"), request.params) IN
       IF checked.k = "throw"
         THEN Item(request, "rejected", Undefined, checked.v, NoOutcome)
       ELSE IF checked.v.issues # NoIssues
         THEN Settled(request, Undefined,
                      ResponseUnlessNotification(request,
                        buildErrorResponse(invalidParamsError(request, checked.v.issues),
                                           request.id)),
                      NoOutcome)
       ELSE Item(request, "pending", checked.v.data, Undefined, NoOutcome)

\* parseRequestAndCallMethod after `await callMethod(...)`
afterCallMethod(methods, item, outcome) ==
  LET response == callMethod(Lookup(methods, item.request.method.v), outcome,
                             item.request.id) IN
  IF response.k = "throw"
    THEN Item(item.request, "rejected", item.params, response.v, outcome)
    ELSE Settled(item.request, item.params,
                 ResponseUnlessNotification(item.request, response), outcome)

(***************************************************************************)
(* Payloads handed to request().                                           *)
(***************************************************************************)
RawRequest(jsonrpc, method, params, id) ==
  [k |-> "object", jsonrpc |-> jsonrpc, method |-> method, params |-> params, id |-> id]

Batch(items) == [k |-> "batch", items |-> items]

JsonrpcValues == {Undefined, Str("2.0"), Str("1.0")}
MethodValues == {Str("greeting"), Str("flaky"), Str("voidMethod"), Str("unknownMethod"),
                 Str("toString"), Undefined}
ParamsValues == {Undefined, Arr("Dan"), Arr("123"), Str("Dan")}
IdValues == {Undefined, Null, Num("1"), Str("1"), Bool("true")}

\* single payloads: every combination of members, and two non-objects
SinglePayloads ==
  {RawRequest(j, m, p, i) : j \in JsonrpcValues, m \in MethodValues,
                            p \in ParamsValues, i \in IdValues}
  \cup {Null, Str("hello")}

\* elements of batch payloads
BatchElements ==
  {RawRequest(Str("2.0"), Str("greeting"), Arr("Dan"), Num("1")),
   RawRequest(Str("2.0"), Str("greeting"), Arr("Andrea"), Str("1")),
   RawRequest(Undefined, Str("greeting"), Arr("123"), Num("2")),
   RawRequest(Str("2.0"), Str("flaky"), Undefined, Num("3")),
   RawRequest(Str("2.0"), Str("flaky"), Undefined, Undefined),
   RawRequest(Str("2.0"), Str("voidMethod"), Undefined, Null),
   RawRequest(Str("2.0"), Str("unknownMethod"), Undefined, Num("4")),
   RawRequest(Str("2.0"), Str("toString"), Undefined, Num("5")),
   RawRequest(Str("2.0"), Str("toString"), Undefined, Undefined),
   RawRequest(Str("1.0"), Str("greeting"), Arr("Dan"), Num("6")),
   Str("hello")}

SeqsUpTo(S, n) == UNION {[1..m -> S] : m \in 0..n}

BatchPayloads == {Batch(items) : items \in SeqsUpTo(BatchElements, MaxBatch)}

Payloads == SinglePayloads \cup BatchPayloads

(***************************************************************************)
(* Client: validation modes and the single call.                           *)
(***************************************************************************)
\* CallMethodOptions: each flag is "unset" (undefined), "true" or "false"
Options(validateParams, validateResults) ==
  [validateParams |-> validateParams, validateResults |-> validateResults]

\* createClient(defs, sendRequest): options = {}
DefaultOptions == Options("unset", "unset")

\* { validateParams = true, validateResults = true }: a flag that is not
\* given counts as true
Enabled(flag) == flag # "false"

\* { ...options, validateParams: false }
rawParams(options) == [options EXCEPT !.validateParams = "false"]

\* { ...options, validateResults: false }
rawResults(options) == [options EXCEPT !.validateResults = "false"]

\* mutant: raw() switches off the validation of params only
raw_paramsOnly(options) == [options EXCEPT !.validateParams = "false"]

\* { ...options, validateParams: false, validateResults: false }
raw(options) == Options("false", "false")

\* { ...options, validateParams: true, validateResults: true }
validating(options) == Options("true", "true")

Variants == {"rawParams", "rawResults", "raw", "validating"}

\* client[variant]()
Variant(options, variant) ==
  CASE variant = "rawParams" -> rawParams(options)
    [] variant = "rawResults" -> rawResults(options)
    [] variant = "raw" -> raw(options)
    [] variant = "validating" -> validating(options)

\* mutant: the switch also sets the flags of the client it is called on
switched_assignsToOriginal(clients, c, variant) ==
  Append([clients EXCEPT ![c] = Variant(clients[c], variant)],
         Variant(clients[c], variant))

\* the clients after clients[c][variant](): createClient is called with new
\* options, and nothing is assigned to the client the switch was called on
switched(clients, c, variant) == Append(clients, Variant(clients[c], variant))

\* method({ paramsSchema, resultSchema }): a contract without handler
ClientMethodDef(paramsSchema, resultSchema) ==
  [k |-> "method", paramsSchema |-> paramsSchema, resultSchema |-> resultSchema]

\* the contracts handed to createClient
ClientDefs ==
  [name \in {"greeting", "flaky"} |->
     CASE name = "greeting" -> ClientMethodDef(Schema("tuple_string"), Schema("string"))
       [] name = "flaky" -> ClientMethodDef(Schema("void"), Schema("string"))]

\* the names of the members of baseClient
BaseMembers == {"batch"} \cup Variants

\* { ...baseClient, ...methods }[name]: a method of the registry hides the
\* member of baseClient that has its name
clientMember(defs, name) ==
  IF name \in DOMAIN defs THEN [k |-> "method", name |-> name]
  ELSE IF name \in Variants THEN [k |-> "switch", name |-> name]
  ELSE IF name = "batch" THEN [k |-> "batch", name |-> name]
  ELSE Undefined

\* clientMethods of server.createClient: the contract of every own key of the
\* server's registry
ServerDefToClientDef(methods) ==
  [name \in DOMAIN methods |->
     ClientMethodDef(methods[name].paramsSchema, methods[name].resultSchema)]

\* the transport functions handed to createClient
Transports == {"sendRequest", "forward"}

\* async (req) => server.request(req), for the server servers[s]
Forward(s) == "forward:" \o ToString(s)

\* the server that such a transport function hands its requests to
ForwardServer(sendRequest) == CHOOSE s \in 1..MaxServers : sendRequest = Forward(s)

\* what a client is bound to: its contracts and its transport function
Binding(defs, sendRequest) == [defs |-> defs, sendRequest |-> sendRequest]

\* crypto.randomUUID(): the n-th id generated in a call
UUID(n) == Str("uuid-" \o ToString(n))

\* mutant: the params are validated whatever the flag
requestParams_alwaysValidated(options, methodDef, params) ==
  parse(methodDef.paramsSchema, params)

\* validateParams ? parse(defs[methodName].paramsSchema, params) : params
requestParams(options, methodDef, params) ==
  IF Enabled(options.validateParams)
    THEN parse(methodDef.paramsSchema, params)
    ELSE Return(params)

\* callMethod of the client up to sendRequest: the request it builds
callMethodRequest(options, defs, methodName, params, id) ==
  LET checked == requestParams(options, defs[methodName], params) IN
  IF checked.k = "throw" THEN checked
  ELSE parse(Schema("JSONRPCRequest"),
             RawRequest(Str("2.0"), Str(methodName), checked.v, id))

\* mutant: an error member is handed to result validation like a result
responseError_ignored(response) == Return(response)

\* mutant: a Response whose id is not the id of the request is refused
responseError_checksId(response) ==
  IF response.id # UUID(1)
    THEN Throw(InvalidRequest("Response id does not match", Undefined))
  ELSE IF response.error # Undefined
    THEN Throw(JSONRPCError(response.error.code, response.error.message,
                            response.error.data))
    ELSE Return(response)

\* if (response.error) throw new JSONRPCError(code, message, data)
responseError(response) ==
  IF response.error # Undefined
    THEN Throw(JSONRPCError(response.error.code, response.error.message,
                            response.error.data))
    ELSE Return(response)

\* mutant: a reply that fails the Response schema is taken as it is
parseResponse_unchecked(responseObject) ==
  Return([k |-> "object", jsonrpc |-> Str("2.0"),
          result |-> Member(responseObject, "result"), error |-> Undefined,
          id |-> Null])

\* safeParse(JSONRPCResponseSchema, responseObject), ParseError on issues
parseResponse(responseObject) ==
  LET checked == safeParse(Schema("JSONRPCResponse"), responseObject) IN
  IF checked.k = "throw" THEN checked
  ELSE IF checked.v.issues # NoIssues
    THEN Throw(ParseError("Error parsing response",
                 [k |-> "record", issues |-> checked.v.issues, value |-> responseObject]))
  ELSE Return(checked.v.data)

\* mutant: the result is validated whatever the flag
responseResult_alwaysValidated(options, methodDef, methodName, result) ==
  LET checked == parse(methodDef.resultSchema, result) IN
  IF checked.k = "throw"
    THEN Throw(InternalError("Invalid result for method " \o methodName, checked.v))
    ELSE checked

\* the try/catch around the result validation of callMethod
responseResult(options, methodDef, methodName, result) ==
  IF ~Enabled(options.validateResults) THEN Return(result)
  ELSE LET checked == parse(methodDef.resultSchema, result) IN
       IF checked.k = "throw"
         THEN Throw(InternalError("Invalid result for method " \o methodName, checked.v))
         ELSE checked

\* callMethod of the client after `await sendRequest(request)`
callMethodResponse(options, defs, methodName, responseObject) ==
  LET parsed == parseResponse(responseObject) IN
  IF parsed.k = "throw" THEN parsed
  ELSE LET response == responseError(parsed.v) IN
       IF response.k = "throw" THEN response
       ELSE responseResult(options, defs[methodName], methodName, response.v.result)

(***************************************************************************)
(* Client: batch().                                                        *)
(***************************************************************************)
\* the params of a batch request under the client's validateParams flag
batchParams(options, methodDef, params) ==
  IF Enabled(options.validateParams)
    THEN parse(methodDef.paramsSchema, params)
    ELSE Return(params)

\* the result of a batch entry under the client's validateResults flag
batchResult(options, methodDef, result) ==
  IF Enabled(options.validateResults)
    THEN parse(methodDef.resultSchema, result)
    ELSE Return(result)

\* ctx[methodName](params): [methodDef, request], or the error thrown
batchRequest(options, methodDef, methodName, params, id) ==
  LET checked == batchParams(options, methodDef, params) IN
  IF checked.k = "throw" THEN checked
  ELSE LET request == parse(Schema("JSONRPCRequest"),
                            RawRequest(Str("2.0"), Str(methodName), checked.v, id)) IN
       IF request.k = "throw" THEN request
       ELSE Return([methodDef |-> methodDef, request |-> request.v])

\* the ctx call whose entry the builder returns under its i-th local key: a
\* call of its own, or the call of the key before it when the builder
\* returns one entry under both keys
RECURSIVE ctxCall(_, _)
ctxCall(entries, i) ==
  IF entries[i].same /\ i > 1 THEN ctxCall(entries, i - 1) ELSE i

\* getBatchRequestConfig(ctx) for a builder that returns an object literal:
\* the config entries in key order, each with the request of its ctx call
\* (the id is generated in the ctx call), or the error of the first ctx call
\* that throws
batchConfig(options, defs, entries) ==
  LET built == [i \in 1..Len(entries) |->
                  batchRequest(options, defs[entries[i].method], entries[i].method,
                               entries[i].params, UUID(ctxCall(entries, i)))]
      thrown == {i \in 1..Len(entries) : built[i].k = "throw"} IN
  IF thrown # {}
    THEN built[CHOOSE i \in thrown : \A j \in thrown : i <= j]
    ELSE Return([i \in 1..Len(entries) |->
                   [key |-> entries[i].key, methodDef |-> built[i].v.methodDef,
                    request |-> built[i].v.request]])

\* results[localRequestId] = entry
Put(results, key, entry) ==
  [x \in DOMAIN results \cup {key} |-> IF x = key THEN entry ELSE results[x]]

\* `${id}`
IdText(id) == IF id = Null THEN "null" ELSE id.v

\* localRequestIdsByGeneratedId.get(id): the map is filled in the order of
\* the config entries, so the last local key set for an id is the one kept
localRequestId(config, id) ==
  IF \A c \in 1..Len(config) : config[c].request.id # id THEN Undefined
  ELSE Str(config[CHOOSE c \in 1..Len(config) :
                    /\ config[c].request.id = id
                    /\ \A d \in (c + 1)..Len(config) : config[d].request.id # id].key)

\* batchConfig[localRequestId][0]
methodDefOf(config, key) ==
  config[CHOOSE c \in 1..Len(config) : config[c].key = key].methodDef

\* the result entry of one response of the batch
batchEntry(options, methodDef, key, response) ==
  IF response.error # Undefined
    THEN [ok |-> FALSE,
          error |-> JSONRPCError(response.error.code, response.error.message,
                                 response.error.data)]
  ELSE LET checked == batchResult(options, methodDef, response.result) IN
       IF checked.k = "throw"
         THEN [ok |-> FALSE,
               error |-> InternalError("Invalid result in batch result for entry " \o key,
                           [k |-> "record", error |-> checked.v,
                            result |-> response.result])]
         ELSE [ok |-> TRUE, value |-> checked.v]

\* mutant: a Response whose id no request of the batch has is left out
RECURSIVE batchResults_dropsUnmatched(_, _, _, _, _)
batchResults_dropsUnmatched(options, config, responses, i, results) ==
  IF i > Len(responses) THEN Return([k |-> "results", v |-> results])
  ELSE LET key == localRequestId(config, responses[i].id) IN
       IF key \in {Undefined, Str("")}
         THEN batchResults_dropsUnmatched(options, config, responses, i + 1, results)
         ELSE batchResults_dropsUnmatched(options, config, responses, i + 1,
                Put(results, key.v,
                    batchEntry(options, methodDefOf(config, key.v), key.v, responses[i])))

\* the loop over the responses of the batch, from the i-th on; the test
\* `!localRequestId` is true for no key and for the key that is the empty
\* string
RECURSIVE batchResults(_, _, _, _, _)
batchResults(options, config, responses, i, results) ==
  IF i > Len(responses) THEN Return([k |-> "results", v |-> results])
  ELSE LET key == localRequestId(config, responses[i].id) IN
       IF key \in {Undefined, Str("")}
         THEN Throw(InvalidRequest("No local request ID found for generated ID "
                                     \o IdText(responses[i].id), Undefined))
         ELSE batchResults(options, config, responses, i + 1,
                Put(results, key.v,
                    batchEntry(options, methodDefOf(config, key.v), key.v, responses[i])))

\* mutant: a reply that is not an array of Responses gives an empty record
batchResponse_unchecked(options, config, batchResponseObject) ==
  LET checked == safeParse(Schema("JSONRPCResponseBatch"), batchResponseObject) IN
  IF checked.k = "throw" THEN checked
  ELSE IF checked.v.issues # NoIssues THEN Return([k |-> "results", v |-> <<>>])
  ELSE batchResults(options, config, checked.v.data.items, 1, <<>>)

\* batch() after `await sendRequest(requests)`
batchResponse(options, config, batchResponseObject) ==
  LET checked == safeParse(Schema("JSONRPCResponseBatch"), batchResponseObject) IN
  IF checked.k = "throw" THEN checked
  ELSE IF checked.v.issues # NoIssues
    THEN Throw(ParseError("Error in batch response: " \o checked.v.issues, Undefined))
  ELSE batchResults(options, config, checked.v.data.items, 1, <<>>)

(***************************************************************************)
(* What the client is asked and what the transport answers.                *)
(***************************************************************************)
ClientParams == {Undefined, Arr("Dan"), Arr("123"), Str("Dan")}

\* one ctx call of a batch builder
BatchEntryCalls ==
  {[method |-> "greeting", params |-> Arr("Dan")],
   [method |-> "greeting", params |-> Arr("123")],
   [method |-> "greeting", params |-> Str("Dan")],
   [method |-> "flaky", params |-> Undefined]}

\* the builders: the i-th local key is "k<i>"
BatchBuilders ==
  {[i \in 1..Len(chosen) |->
      [key |-> "k" \o ToString(i), method |-> chosen[i].method,
       params |-> chosen[i].params, same |-> FALSE]] : chosen \in SeqsUpTo(BatchEntryCalls, MaxBatch)}

ErrorObject(code, message, data) ==
  [k |-> "ErrorObject", code |-> code, message |-> message, data |-> data]

Response(result, error, id) ==
  [k |-> "object", jsonrpc |-> Str("2.0"), result |-> result, error |-> error, id |-> id]

\* replies that are one value: well-formed Responses and malformed ones
SingleReplies ==
  {Response(Str("Hello, Dan!"), Undefined, UUID(1)),
   Response(Num("42"), Undefined, UUID(1)),
   Response(Str("ok"), Undefined, Null),
   Response(Str("Hello, Andrea!"), Undefined, UUID(2)),
   Response(Undefined,
            ErrorObject(-32603, "Internal error: Intentional test error", Str("test data")),
            UUID(1)),
   Response(Str("Hello, Dan!"), ErrorObject(-32602, "Invalid params", Undefined), Null),
   Response(Undefined, ErrorObject(-32600, "Invalid Request", Undefined), Null),
   Response(Str("Hello, Dan!"), Undefined, Undefined),
   Response(Str("Hello, Dan!"), Str("oops"), UUID(1)),
   [k |-> "object", jsonrpc |-> Str("1.0"), result |-> Str("Hello, Dan!"),
    error |-> Undefined, id |-> UUID(1)],
   Null,
   Str("hello")}

\* the elements of replies that are arrays
BatchReplyElements ==
  {Response(Str("Hello, Dan!"), Undefined, UUID(1)),
   Response(Num("42"), Undefined, UUID(2)),
   Response(Undefined, ErrorObject(-32602, "Invalid params", Str("age")), UUID(2)),
   Response(Str("ok"), Undefined, Null),
   Str("hello")}

Replies ==
  SingleReplies \cup {Batch(items) : items \in SeqsUpTo(BatchReplyElements, MaxBatch)}

\* the local keys a builder may use
LocalKeys == {"", "a", "b"}

\* the ctx calls a builder may make
CtxCalls ==
  {[method |-> "greeting", params |-> Arr("Dan")],
   [method |-> "flaky", params |-> Undefined],
   [method |-> "greeting", params |-> Arr("123")]}

\* one property of the object a builder returns: a local key with the entry
\* of a ctx call, or (same) with the entry already returned under the key
\* before it
KeyedEntries ==
  {[key |-> key, method |-> c.method, params |-> c.params, same |-> same] :
     key \in LocalKeys, c \in CtxCalls, same \in BOOLEAN}

\* the builders: object literals with distinct local keys
KeyedBuilders ==
  {entries \in SeqsUpTo(KeyedEntries, MaxBatch) :
     /\ \A i, j \in 1..Len(entries) : i # j => entries[i].key # entries[j].key
     /\ \A i \in 1..Len(entries) :
          entries[i].same =>
            /\ i > 1
            /\ entries[i].method = entries[i - 1].method
            /\ entries[i].params = entries[i - 1].params}

\* the elements of the arrays that answer a batch: Responses for the first
\* two ids generated, for an id that was not generated and for the id null,
\* and a value that is not a Response
CorrelationReplyElements ==
  BatchReplyElements \cup {Response(Str("late"), Undefined, UUID(9))}

CorrelationReplies ==
  {Batch(items) : items \in SeqsUpTo(CorrelationReplyElements, MaxBatch)}

(***************************************************************************)
(* State.                                                                  *)
(***************************************************************************)
VARIABLES
  methods,   \* the server's registry
  pc,        \* request(): "idle", "pending", "resolved" or "rejected"
  payload,   \* the argument of request()
  items,     \* one entry per dispatched request, in request order
  ret,       \* what request() resolved to, or the value it rejected with
  calls,     \* handler invocations so far: <<index, method, params>>
  done,      \* the indices of the items whose handler has settled, in that order
  servers,   \* the registry of every server created so far, the base server first
  origin,    \* per server, the server it was extended from and the definitions given
  target,    \* the server whose request() was called
  clients,   \* the options of every client created so far, the default one first
  corigin,   \* per client, the client it was derived from and the variant called
  cl,        \* the client that was called
  cpc,       \* the client call: "idle", "awaiting", "resolved" or "rejected"
  call,      \* the call: a method with params, or the entries of a batch builder
  sent,      \* the payloads handed to sendRequest so far
  reply,     \* what sendRequest resolved to
  cret,      \* what the call resolved to, or the value it rejected with
  bindings,  \* per client, the contracts and the transport function it holds
  returned   \* what the last server.createClient() returned

serverVars == <<methods, pc, payload, items, ret, calls, done, servers, origin, target>>

clientVars == <<clients, corigin, cl, cpc, call, sent, reply, cret, bindings, returned>>

vars == <<serverVars, clientVars>>

Init ==
  /\ methods = ServerMethods
  /\ pc = "idle"
  /\ payload = Undefined
  /\ items = <<>>
  /\ ret = Undefined
  /\ calls = <<>>
  /\ done = <<>>
  /\ servers = <<ServerMethods>>
  /\ origin = <<[parent |-> 0, defs |-> <<>>]>>
  /\ target = 1
  /\ clients = <<DefaultOptions>>
  /\ corigin = <<[parent |-> 0, variant |-> "createClient"]>>
  /\ cl = 1
  /\ cpc = "idle"
  /\ call = Undefined
  /\ sent = <<>>
  /\ reply = Undefined
  /\ cret = Undefined
  /\ bindings = <<Binding(ClientDefs, "sendRequest")>>
  /\ returned = Undefined

\* mutant: the handler of a request is called a second time
RECURSIVE CallsOf_retries(_, _)
CallsOf_retries(dispatched, i) ==
  IF i > Len(dispatched) THEN <<>>
  ELSE (IF dispatched[i].status = "pending"
          THEN <<[index |-> i, method |-> dispatched[i].request.method.v,
                  params |-> dispatched[i].params],
                 [index |-> i, method |-> dispatched[i].request.method.v,
                  params |-> dispatched[i].params]>>
          ELSE <<>>) \o CallsOf_retries(dispatched, i + 1)

\* mutant: the handler of a request is called when those of the requests
\* before it have been awaited
RECURSIVE CallsOf_oneAtATime(_, _)
CallsOf_oneAtATime(dispatched, i) ==
  IF i > Len(dispatched) THEN <<>>
  ELSE IF dispatched[i].status = "pending"
    THEN <<[index |-> i, method |-> dispatched[i].request.method.v,
            params |-> dispatched[i].params]>>
    ELSE CallsOf_oneAtATime(dispatched, i + 1)

\* the handler calls made while the requests are dispatched in order
RECURSIVE CallsOf(_, _)
CallsOf(dispatched, i) ==
  IF i > Len(dispatched) THEN <<>>
  ELSE (IF dispatched[i].status = "pending"
          THEN <<[index |-> i, method |-> dispatched[i].request.method.v,
                  params |-> dispatched[i].params]>>
          ELSE <<>>) \o CallsOf(dispatched, i + 1)

\* request() settles at once with an error response
SettleWith(result) ==
  /\ pc' = IF result.k = "throw" THEN "rejected" ELSE "resolved"
  /\ ret' = result.v
  /\ items' = <<>>
  /\ calls' = <<>>
  /\ done' = <<>>

\* request() dispatches the parsed requests and awaits them
Dispatch(registry, requests) ==
  LET dispatched == [i \in 1..Len(requests) |->
                       parseRequestAndCallMethod(registry, requests[i])] IN
  /\ pc' = "pending"
  /\ ret' = Undefined
  /\ items' = dispatched
  /\ calls' = CallsOf(dispatched, 1)
  /\ done' = <<>>

\* request(p) of the server with registry `registry`, up to its first await
Serve(registry, p) ==
  /\ pc = "idle"
  /\ payload' = p
  /\ IF p.k = "batch"
       THEN LET checked == safeParse(Schema("JSONRPCRequestBatch"), p) IN
            IF checked.k = "throw" THEN SettleWith(checked)
            ELSE IF checked.v.issues # NoIssues
              THEN SettleWith(buildErrorResponse(
                     InvalidRequest("Invalid batch request",
                       [k |-> "record", issues |-> checked.v.issues]), Null))
            ELSE Dispatch(registry, checked.v.data.items)
       ELSE LET checked == safeParse(Schema("JSONRPCRequest"), p) IN
            IF checked.k = "throw" THEN SettleWith(checked)
            ELSE IF checked.v.issues # NoIssues
              THEN SettleWith(buildErrorResponse(
                     InvalidRequest("",
                       [k |-> "record", issues |-> checked.v.issues]), Null))
            ELSE Dispatch(registry, <<checked.v.data>>)

\* server.request(p) on the base server
Request(p) ==
  /\ Serve(methods, p)
  /\ UNCHANGED <<methods, servers, origin, target>>
  /\ UNCHANGED clientVars

\* servers[s].request(p)
RequestTo(s, p) ==
  /\ Serve(servers[s], p)
  /\ methods' = servers[s]
  /\ target' = s
  /\ UNCHANGED <<servers, origin>>
  /\ UNCHANGED clientVars

\* servers[s].extend(defs)
Extend(s, defs) ==
  /\ Len(servers) < MaxServers
  /\ servers' = extend(servers, s, defs)
  /\ origin' = Append(origin, [parent |-> s, defs |-> defs])
  /\ UNCHANGED <<methods, pc, payload, items, ret, calls, done, target>>
  /\ UNCHANGED clientVars

\* the handler of item i settles, and callMethod and
\* parseRequestAndCallMethod run to their end
HandlerSettle(i) ==
  /\ pc \in {"pending", "rejected"}
  /\ items[i].status = "pending"
  /\ \E o \in Handler(Lookup(methods, items[i].request.method.v).handler, items[i].params) :
       items' = [items EXCEPT ![i] = afterCallMethod(methods, items[i], o)]
  /\ done' = Append(done, i)
  /\ UNCHANGED <<methods, pc, payload, ret, calls, servers, origin, target>>
  /\ UNCHANGED clientVars

\* responses.filter((r) => r !== undefined)
RECURSIVE FilterDefined(_)
FilterDefined(values) ==
  IF values = <<>> THEN <<>>
  ELSE (IF Head(values) # Undefined THEN <<Head(values)>> ELSE <<>>)
       \o FilterDefined(Tail(values))

\* mutant: the responses are collected as the handlers complete
ReturnValue_completionOrder ==
  IF payload.k = "batch"
    THEN LET parsed == parse(Schema("JSONRPCResponseBatch"),
                             Batch(FilterDefined([j \in 1..Len(done) |->
                                                    items[done[j]].value])))
         IN IF parsed.k = "throw" THEN parsed ELSE Return(parsed.v)
    ELSE Return(OrNull(items[1].value))

\* the value request() returns once every dispatched request is fulfilled
ReturnValue ==
  IF payload.k = "batch"
    THEN LET parsed == parse(Schema("JSONRPCResponseBatch"),
                             Batch(FilterDefined([i \in 1..Len(items) |-> items[i].value])))
         IN IF parsed.k = "throw" THEN parsed ELSE Return(parsed.v)
    ELSE Return(OrNull(items[1].value))

\* every awaited promise is fulfilled: request() resolves
Resolve ==
  /\ pc = "pending"
  /\ \A i \in 1..Len(items) : items[i].status = "fulfilled"
  /\ pc' = IF ReturnValue.k = "throw" THEN "rejected" ELSE "resolved"
  /\ ret' = ReturnValue.v
  /\ UNCHANGED <<methods, payload, items, calls, done, servers, origin, target>>
  /\ UNCHANGED clientVars

\* an awaited promise is rejected: request() rejects with its reason, without
\* waiting for the other requests
Reject ==
  /\ pc = "pending"
  /\ \E i \in 1..Len(items) :
       /\ items[i].status = "rejected"
       /\ \A j \in 1..(i - 1) : items[j].status # "rejected"
       /\ ret' = items[i].value
  /\ pc' = "rejected"
  /\ UNCHANGED <<methods, payload, items, calls, done, servers, origin, target>>
  /\ UNCHANGED clientVars

Next ==
  \/ \E p \in Payloads : Request(p)
  \/ \E i \in 1..Len(items) : HandlerSettle(i)
  \/ Resolve
  \/ Reject

Spec == Init /\ [][Next]_vars

\* every handler that was invoked settles in the end, and a promise that can
\* settle does: the handlers are the only steps that wait for anything
\* outside request()
SomeHandlerSettles == \E i \in 1..Len(items) : HandlerSettle(i)

SpecLive ==
  Init /\ [][Next]_vars
       /\ WF_vars(SomeHandlerSettles) /\ WF_vars(Resolve) /\ WF_vars(Reject)

\* requests sent to the base server and to its extensions
ExtendPayloads ==
  {RawRequest(Str("2.0"), Str(m), p, i) :
     m \in {"greeting", "newMethod", "unknownMethod", "toString"},
     p \in {Arr("Dan"), Arr("123")}, i \in {Undefined, Num("1")}}
  \cup {Batch(<<RawRequest(Str("2.0"), Str("newMethod"), Arr("Dan"), Num("1")),
                 RawRequest(Str("2.0"), Str("greeting"), Arr("Andrea"), Num("2"))>>)}

NextExtend ==
  \/ \E s \in 1..Len(servers), defs \in ExtensionDefs : Extend(s, defs)
  \/ \E s \in 1..Len(servers), p \in ExtendPayloads : RequestTo(s, p)
  \/ \E i \in 1..Len(items) : HandlerSettle(i)
  \/ Resolve
  \/ Reject

\* a base server, the servers extended from it, and one request to any of them
SpecExtend == Init /\ [][NextExtend]_vars

(***************************************************************************)
(* Client actions.                                                         *)
(***************************************************************************)
\* clients[c][variant](): a new client
Switch(c, variant) ==
  /\ cpc = "idle"
  /\ Len(clients) < MaxClients
  /\ clientMember(bindings[c].defs, variant).k = "switch"
  /\ clients' = switched(clients, c, variant)
  /\ corigin' = Append(corigin, [parent |-> c, variant |-> variant])
  /\ bindings' = Append(bindings, Binding(bindings[c].defs, bindings[c].sendRequest))
  /\ UNCHANGED <<cl, cpc, call, sent, reply, cret, returned>>
  /\ UNCHANGED serverVars

\* mutant: the transport is invoked once more with the same payload
Send_twice(built, requests) ==
  IF built.k = "throw"
    THEN /\ cpc' = "rejected"
         /\ cret' = built.v
         /\ sent' = sent
    ELSE /\ cpc' = "awaiting"
         /\ cret' = Undefined
         /\ sent' = sent \o <<requests, requests>>

\* the call ends before anything is sent, or sendRequest is invoked
Send(built, requests) ==
  IF built.k = "throw"
    THEN /\ cpc' = "rejected"
         /\ cret' = built.v
         /\ sent' = sent
    ELSE /\ cpc' = "awaiting"
         /\ cret' = Undefined
         /\ sent' = Append(sent, requests)

\* clients[c][methodName](params), up to `await sendRequest(request)`
Call(c, methodName, params) ==
  /\ cpc = "idle"
  /\ clientMember(bindings[c].defs, methodName).k = "method"
  /\ cl' = c
  /\ call' = [k |-> "single", method |-> methodName, params |-> params]
  /\ Send(callMethodRequest(clients[c], bindings[c].defs, methodName, params, UUID(1)),
          callMethodRequest(clients[c], bindings[c].defs, methodName, params, UUID(1)).v)
  /\ UNCHANGED <<clients, corigin, reply, bindings, returned>>
  /\ UNCHANGED serverVars

\* Object.values(batchConfig).map(([_, request]) => request)
requestsOf(config) ==
  IF config.k = "throw" THEN Undefined
  ELSE Batch([i \in 1..Len(config.v) |-> config.v[i].request])

\* clients[c].batch(builder), up to `await sendRequest(requests)`
CallBatch(c, entries) ==
  /\ cpc = "idle"
  /\ clientMember(bindings[c].defs, "batch").k = "batch"
  /\ cl' = c
  /\ call' = [k |-> "batchCall", entries |-> entries]
  /\ Send(batchConfig(clients[c], bindings[c].defs, entries),
          requestsOf(batchConfig(clients[c], bindings[c].defs, entries)))
  /\ UNCHANGED <<clients, corigin, reply, bindings, returned>>
  /\ UNCHANGED serverVars

\* the call ends with `outcome`
Settle(outcome) ==
  /\ cpc' = IF outcome.k = "throw" THEN "rejected" ELSE "resolved"
  /\ cret' = outcome.v

\* sendRequest resolves to r, and the call runs to its end
Reply(r) ==
  /\ cpc = "awaiting"
  /\ reply' = r
  /\ Settle(IF call.k = "single"
              THEN callMethodResponse(clients[cl], bindings[cl].defs, call.method, r)
              ELSE batchResponse(clients[cl],
                                 batchConfig(clients[cl], bindings[cl].defs, call.entries).v, r))
  /\ UNCHANGED <<clients, corigin, cl, call, sent, bindings, returned>>
  /\ UNCHANGED serverVars

\* sendRequest rejects, and so does the call
TransportFails ==
  /\ cpc = "awaiting"
  /\ cpc' = "rejected"
  /\ cret' = PlainError("fetch failed")
  /\ UNCHANGED <<clients, corigin, cl, call, sent, reply, bindings, returned>>
  /\ UNCHANGED serverVars

NextClient ==
  \/ \E c \in 1..Len(clients), variant \in Variants : Switch(c, variant)
  \/ \E c \in 1..Len(clients), methodName \in DOMAIN ClientDefs, params \in ClientParams :
       Call(c, methodName, params)
  \/ cpc = "idle" /\ \E c \in 1..Len(clients), entries \in BatchBuilders :
                        CallBatch(c, entries)
  \/ cpc = "awaiting" /\ \E r \in Replies : Reply(r)
  \/ TransportFails

\* a client, its variants, and one call answered by an arbitrary transport
SpecClient == Init /\ [][NextClient]_vars

\* clients[c][variant](), any number of times in a row
Rebind(c, variant) ==
  /\ cpc = "idle"
  /\ Len(clients) < MaxModes
  /\ clientMember(bindings[c].defs, variant).k = "switch"
  /\ clients' = switched(clients, c, variant)
  /\ corigin' = Append(corigin, [parent |-> c, variant |-> variant])
  /\ bindings' = Append(bindings, Binding(bindings[c].defs, bindings[c].sendRequest))
  /\ UNCHANGED <<cl, cpc, call, sent, reply, cret, returned>>
  /\ UNCHANGED serverVars

NextBatch ==
  \/ cpc = "idle" /\ \E c \in 1..Len(clients), entries \in KeyedBuilders :
                        CallBatch(c, entries)
  \/ cpc = "awaiting" /\ \E r \in CorrelationReplies : Reply(r)
  \/ TransportFails

\* one batch() call of the default client, for builders that choose their
\* keys and may return one entry under two keys, answered by an arbitrary
\* array
SpecBatch == Init /\ [][NextBatch]_vars

\* server.createClient(sendRequest) on servers[s]: createClient(clientMethods,
\* sendRequest) makes a client, and the value of its member `raw`, called
\* without arguments, is returned: a client when the member is the mode
\* switch, the promise of a call when a method of the registry is named raw
CreateClient(s, sendRequest) ==
  /\ cpc = "idle"
  /\ Len(clients) + 2 <= MaxGenerated
  /\ IF clientMember(ServerDefToClientDef(servers[s]), "raw").k = "switch"
       THEN /\ clients' = switched(Append(clients, DefaultOptions), Len(clients) + 1, "raw")
            /\ corigin' = corigin \o <<[parent |-> 0, variant |-> "createClient"],
                                       [parent |-> Len(clients) + 1, variant |-> "raw"]>>
            /\ bindings' = bindings \o <<Binding(ServerDefToClientDef(servers[s]), sendRequest),
                                         Binding(ServerDefToClientDef(servers[s]), sendRequest)>>
            /\ returned' = [k |-> "client", v |-> Len(clients) + 2, server |-> s]
            /\ UNCHANGED <<cl, cpc, call, sent, reply, cret>>
       ELSE /\ clients' = Append(clients, DefaultOptions)
            /\ corigin' = Append(corigin, [parent |-> 0, variant |-> "createClient"])
            /\ bindings' = Append(bindings,
                                  Binding(ServerDefToClientDef(servers[s]), sendRequest))
            /\ returned' = [k |-> "promise", v |-> 0, server |-> s]
            /\ cl' = Len(clients) + 1
            /\ call' = [k |-> "single", method |-> "raw", params |-> Undefined]
            /\ Send(callMethodRequest(DefaultOptions, ServerDefToClientDef(servers[s]),
                                      "raw", Undefined, UUID(1)),
                    callMethodRequest(DefaultOptions, ServerDefToClientDef(servers[s]),
                                      "raw", Undefined, UUID(1)).v)
            /\ UNCHANGED reply
  /\ UNCHANGED serverVars

\* generated[variant]() on a client of the specification of server.createClient
SwitchGenerated(c, variant) ==
  /\ cpc = "idle"
  /\ Len(clients) < MaxGenerated
  /\ clientMember(bindings[c].defs, variant).k = "switch"
  /\ clients' = switched(clients, c, variant)
  /\ corigin' = Append(corigin, [parent |-> c, variant |-> variant])
  /\ bindings' = Append(bindings, Binding(bindings[c].defs, bindings[c].sendRequest))
  /\ UNCHANGED <<cl, cpc, call, sent, reply, cret, returned>>
  /\ UNCHANGED serverVars

NextGenerated ==
  \/ \E s \in 1..Len(servers), defs \in GeneratedDefs : Extend(s, defs)
  \/ \E s \in 1..Len(servers), sendRequest \in Transports : CreateClient(s, sendRequest)
  \/ \E c \in 1..Len(clients), variant \in Variants : SwitchGenerated(c, variant)

\* servers, the clients generated from them, and the mode switches of these
SpecGenerated == Init /\ [][NextGenerated]_vars

NextModes ==
  \E c \in 1..Len(clients), variant \in Variants : Rebind(c, variant)

\* a client and the clients obtained from it by sequences of mode switches
SpecModes == Init /\ [][NextModes]_vars

(***************************************************************************)
(* The error constructors called directly.                                 *)
(***************************************************************************)
ErrorConstructors ==
  {"ParseError", "InvalidRequest", "MethodNotFound", "InvalidParams", "InternalError"}

\* the message and the data of the ErrorConfig handed to a constructor
ErrorDetails ==
  {Undefined, Str(""), Str("Your request was invalid"), Str("Something went wrong")}
ErrorDatas == {Undefined, Null, Str("test data"), Num("1"), Arr("Dan"), Bool("false")}

\* ({ message, data }: ErrorConfig = {}): the text handed to formatErrorMessage
DetailText(message) == IF message = Undefined THEN "" ELSE message.v

\* JSONRPCError[name]({ message, data })
Construct(name, message, data) ==
  CASE name = "ParseError" -> ParseError(DetailText(message), data)
    [] name = "InvalidRequest" -> InvalidRequest(DetailText(message), data)
    [] name = "MethodNotFound" -> MethodNotFound(DetailText(message), data)
    [] name = "InvalidParams" -> InvalidParams(DetailText(message), data)
    [] name = "InternalError" -> InternalError(DetailText(message), data)

\* a constructor is called; payload holds its arguments and ret what it returned
Constructed(name, message, data) ==
  /\ payload' = [k |-> "ErrorConfig", name |-> name, message |-> message, data |-> data]
  /\ ret' = Construct(name, message, data)
  /\ UNCHANGED <<methods, pc, items, calls, done, servers, origin, target>>
  /\ UNCHANGED clientVars

NextErrors ==
  \E name \in ErrorConstructors, message \in ErrorDetails, data \in ErrorDatas :
    Constructed(name, message, data)

\* calls of the five constructors, one after the other
SpecErrors == Init /\ [][NextErrors]_vars

(***************************************************************************)
(* Round trip: clients whose transport hands the request to their server.  *)
(***************************************************************************)
\* the clients whose transport function forwards to a server
ForwardClients ==
  {c \in 1..Len(clients) : \E s \in 1..Len(servers) : bindings[c].sendRequest = Forward(s)}

\* the method names and the params that the clients are called with
RoundTripNames == {"greeting", "flaky", "voidMethod", "normalize", "transform", "raw",
                   "asyncParams", "asyncResult"}
RoundTripParams == {Undefined, Arr("Dan"), Arr("Andrea"), Arr("123"), Str("Dan")}

\* the transport function of the client that was called runs up to the first
\* await of server.request(request)
ForwardRequest ==
  /\ cpc = "awaiting"
  /\ pc = "idle"
  /\ cl \in ForwardClients
  /\ RequestTo(ForwardServer(bindings[cl].sendRequest), sent[Len(sent)])

\* server.request() has resolved: so does the transport function, and the
\* call runs to its end
ForwardReply ==
  /\ pc = "resolved"
  /\ Reply(ret)

\* server.request() has rejected: so do the transport function and the call
ForwardRejects ==
  /\ cpc = "awaiting"
  /\ pc = "rejected"
  /\ cpc' = "rejected"
  /\ cret' = ret
  /\ UNCHANGED <<clients, corigin, cl, call, sent, reply, bindings, returned>>
  /\ UNCHANGED serverVars

NextRoundTrip ==
  \/ cpc = "idle" /\ \E defs \in RoundTripDefs : Extend(1, defs)
  \/ cpc = "idle" /\ Len(clients) = 1
                   /\ \E s \in 1..Len(servers) : CreateClient(s, Forward(s))
  \/ \E c \in ForwardClients : SwitchGenerated(c, "validating")
  \/ cpc = "idle" /\ \E c \in ForwardClients, methodName \in RoundTripNames,
                         params \in RoundTripParams : Call(c, methodName, params)
  \/ ForwardRequest
  \/ \E i \in 1..Len(items) : HandlerSettle(i)
  \/ Resolve
  \/ Reject
  \/ ForwardReply
  \/ ForwardRejects

\* extensions of the base server, one client generated from one of them with
\* a transport that forwards to it, validating clients made from that client,
\* and one call
SpecRoundTrip == Init /\ [][NextRoundTrip]_vars

(***************************************************************************)
(* Vocabulary of the properties.                                           *)
(***************************************************************************)
\* request() was called with a non-array payload
SingleCall == pc # "idle" /\ payload.k # "batch"

\* ... that passes the Request schema
WellFormedSingle == SingleCall /\ JSONRPCRequestSchema(payload).issues = NoIssues

\* the parsed single request
TheRequest == JSONRPCRequestSchema(payload).value

HasId(request) == request.id # Undefined

Registered(request) == request.method.v \in DOMAIN methods

IsResponse(v) == v.k = "object" /\ "result" \in DOMAIN v

IsErrorResponse(v, code) ==
  IsResponse(v) /\ v.error # Undefined /\ v.error.code = code /\ v.result = Undefined

ParamsAccepted(request) ==
  StandardValidate(methods[request.method.v].paramsSchema, request.params).issues = NoIssues

ResultAccepted(request, result) ==
  StandardValidate(methods[request.method.v].resultSchema, result).issues = NoIssues

(***************************************************************************)
(* Properties.                                                             *)
(***************************************************************************)
\* C1: a well-formed single request with an id to a registered method is
\* answered by one Response with the same id (same value, same type) that
\* carries a result accepted by the result schema or else an error; request()
\* does not reject.
C1_ResponseMirrorsId ==
  (WellFormedSingle /\ HasId(TheRequest) /\ Registered(TheRequest)) =>
    /\ pc # "rejected"
    /\ pc = "resolved" =>
         /\ IsResponse(ret)
         /\ ret.id = payload.id
         /\ \/ ret.error = Undefined /\ ResultAccepted(TheRequest, ret.result)
            \/ ret.error # Undefined /\ ret.result = Undefined

C1_Witness ==
  /\ pc = "resolved" /\ WellFormedSingle
  /\ payload.id = Str("1") /\ payload.method = Str("greeting")
  /\ ret.id = Str("1") /\ ret.result = Str("Hello, Dan!") /\ ret.error = Undefined

\* C2: a well-formed notification to a registered method with valid params
\* resolves to null, and by then the handler has been invoked with the
\* validated params.
C2_NotificationRunsHandler ==
  (WellFormedSingle /\ ~HasId(TheRequest) /\ Registered(TheRequest)
     /\ ParamsAccepted(TheRequest)) =>
    /\ pc # "rejected"
    /\ pc = "resolved" =>
         /\ ret = Null
         /\ Len(calls) = 1
         /\ calls[1].method = TheRequest.method.v
         /\ calls[1].params =
              StandardValidate(methods[TheRequest.method.v].paramsSchema,
                               TheRequest.params).value
         /\ items[1].outcome # NoOutcome

C2_Witness ==
  /\ pc = "resolved" /\ WellFormedSingle
  /\ payload.id = Undefined /\ payload.method = Str("greeting")
  /\ ret = Null /\ Len(calls) = 1 /\ calls[1].params = Arr("Dan")

\* C3: a dispatched request yields a Response iff it has an id member, at
\* every exit of the dispatch; id null is answered with id null.
C3_ResponseIffId ==
  /\ \A i \in 1..Len(items) :
       items[i].status = "fulfilled" =>
         /\ IsResponse(items[i].value) <=> HasId(items[i].request)
         /\ ~HasId(items[i].request) => items[i].value = Undefined
         /\ items[i].request.id = Null => items[i].value.id = Null
  /\ (WellFormedSingle /\ pc = "resolved") =>
       /\ IsResponse(ret) <=> HasId(TheRequest)
       /\ ~HasId(TheRequest) => ret = Null

C3_Witness ==
  /\ pc = "resolved" /\ WellFormedSingle
  /\ payload.id = Null /\ payload.method = Str("flaky")
  /\ IsResponse(ret) /\ ret.id = Null /\ ret.error # Undefined

\* C4: a non-array payload that fails the Request schema is answered with
\* id null and code -32600, whatever id it carried, and no handler runs.
C4_MalformedSingle ==
  (SingleCall /\ ~WellFormedSingle) =>
    /\ pc = "resolved"
    /\ IsErrorResponse(ret, -32600)
    /\ ret.id = Null
    /\ calls = <<>>
    /\ items = <<>>

C4_Witness ==
  /\ pc = "resolved" /\ payload.k = "object"
  /\ payload.jsonrpc = Str("1.0") /\ payload.id = Num("1")
  /\ payload.method = Str("greeting")
  /\ ret.id = Null /\ ret.error.code = -32600

\* C5: a well-formed request naming a method that is not a key of the
\* registry is answered with code -32601 and its own id, or with nothing when
\* it has no id, for every method name.
C5_UnregisteredMethod ==
  (WellFormedSingle /\ ~Registered(TheRequest)) =>
    /\ pc # "rejected"
    /\ pc = "resolved" =>
         IF HasId(TheRequest)
           THEN IsErrorResponse(ret, -32601) /\ ret.id = payload.id
           ELSE ret = Null

\* C6: params that fail the params schema of a registered method are
\* answered with the request's id and code -32602, the error data carrying
\* the issue list and the raw params; the handler is not invoked.
C6_InvalidParams ==
  (WellFormedSingle /\ HasId(TheRequest) /\ Registered(TheRequest)
     /\ ~ParamsAccepted(TheRequest)) =>
    /\ pc # "rejected"
    /\ calls = <<>>
    /\ pc = "resolved" =>
         /\ IsErrorResponse(ret, -32602)
         /\ ret.id = payload.id
         /\ ret.error.data.issues =
              StandardValidate(methods[TheRequest.method.v].paramsSchema,
                               TheRequest.params).issues
         /\ ret.error.data.issues # NoIssues
         /\ Member(ret.error.data, "value") = payload.params

C6_Witness ==
  /\ pc = "resolved" /\ WellFormedSingle
  /\ payload.method = Str("greeting") /\ payload.params = Arr("123")
  /\ payload.id = Num("1")
  /\ ret.error.code = -32602 /\ ret.error.data.value = Arr("123")
  /\ ret.error.message = "Invalid params: Invalid params for method greeting"

\* the Response of a dispatched request whose handler has settled
Answered(i) ==
  items[i].status = "fulfilled" /\ HasId(items[i].request)
    /\ items[i].outcome # NoOutcome

\* C7: when the handler throws while serving a request with an id, a typed
\* error is answered with its own code, message and data, and any other
\* value with code -32603 and the thrown value as the error's data.
C7_ThrownErrors ==
  \A i \in 1..Len(items) :
    (Answered(i) /\ items[i].outcome.k = "throw") =>
      LET thrown == items[i].outcome.v
          response == items[i].value IN
      /\ IsResponse(response)
      /\ response.result = Undefined
      /\ response.id = items[i].request.id
      /\ IF thrown.k = "JSONRPCError"
           THEN /\ response.error.code = thrown.code
                /\ response.error.message = thrown.message
                /\ response.error.data = thrown.data
           ELSE /\ response.error.code = -32603
                /\ response.error.data = thrown
      /\ (pc = "resolved" /\ payload.k # "batch") => ret = response

C7_Witness ==
  /\ pc = "resolved" /\ WellFormedSingle /\ payload.id = Num("1")
  /\ items[1].outcome = Throw(PlainError("Something went wrong"))
  /\ ret.error.code = -32603
  /\ ret.error.data = PlainError("Something went wrong")

\* C8: a handler result that fails the result schema is never emitted as a
\* result: a request with an id is answered with code -32603, message
\* 'Internal error: Invalid result' and data carrying the issues and the raw
\* result.
C8_InvalidResult ==
  \A i \in 1..Len(items) :
    (items[i].status = "fulfilled" /\ items[i].outcome.k = "return"
       /\ ~ResultAccepted(items[i].request, items[i].outcome.v)) =>
      LET response == items[i].value IN
      /\ HasId(items[i].request) =>
           /\ IsErrorResponse(response, -32603)
           /\ response.id = items[i].request.id
           /\ response.error.message = "Internal error: Invalid result"
           /\ response.error.data.issues =
                StandardValidate(methods[items[i].request.method.v].resultSchema,
                                 items[i].outcome.v).issues
           /\ response.error.data.value = items[i].outcome.v
      /\ ~HasId(items[i].request) => response = Undefined
      /\ (pc = "resolved" /\ payload.k # "batch") => ret = OrNull(response)

C8_Witness ==
  /\ pc = "resolved" /\ WellFormedSingle /\ payload.id = Str("1")
  /\ items[1].outcome = Return(Num("123"))
  /\ ret.error.message = "Internal error: Invalid result"
  /\ ret.error.data.value = Num("123") /\ ret.result = Undefined

\* C9: request() never rejects, whatever the payload, the method name, the
\* params and the handler's outcome.
C9_NeverRejects == pc # "rejected"

\* the Response objects request() has returned
EmittedResponses ==
  IF pc # "resolved" THEN {}
  ELSE IF ret.k = "batch" THEN {ret.items[i] : i \in 1..Len(ret.items)}
  ELSE IF IsResponse(ret) THEN {ret}
  ELSE {}

\* C10: every emitted Response has exactly one of the members result and
\* error.
C10_ExactlyOneMember ==
  \A response \in EmittedResponses :
    (response.result # Undefined) # (response.error # Undefined)

(***************************************************************************)
(* Batch requests.                                                         *)
(***************************************************************************)
\* request() was called with an array
BatchCall == pc # "idle" /\ payload.k = "batch"

\* some element of the array fails the Request schema
SomeElementMalformed ==
  \E i \in 1..Len(payload.items) :
    JSONRPCRequestSchema(payload.items[i]).issues # NoIssues

WellFormedBatch == BatchCall /\ ~SomeElementMalformed

\* the parsed requests of a well-formed batch
TheBatch ==
  [i \in 1..Len(payload.items) |-> JSONRPCRequestSchema(payload.items[i]).value]

\* the positions of the requests that have an id, in ascending order
RECURSIVE IdPositions(_, _)
IdPositions(requests, i) ==
  IF i > Len(requests) THEN <<>>
  ELSE (IF HasId(requests[i]) THEN <<i>> ELSE <<>>) \o IdPositions(requests, i + 1)

\* how many elements of a sequence of Requests or Responses carry the id v
CountId(messages, v) == Cardinality({i \in 1..Len(messages) : messages[i].id = v})

\* C11: a well-formed batch of N requests, K of them without id, resolves to
\* an array of exactly N - K Responses whose ids are the ids of the requests
\* that have one, whatever the order in which the handlers complete.
C11_BatchResponseCount ==
  WellFormedBatch =>
    /\ pc # "rejected"
    /\ pc = "resolved" =>
         /\ ret.k = "batch"
         /\ Len(ret.items) = Len(IdPositions(TheBatch, 1))
         /\ \A j \in 1..Len(ret.items) : IsResponse(ret.items[j])
         /\ \A v \in IdValues \ {Undefined} :
              CountId(ret.items, v) = CountId(TheBatch, v)

\* C12: in the array request() returns for a batch, the Responses stand in
\* the order of their requests with the notifications left out, whatever the
\* order in which the handlers completed.
C12_BatchOrder ==
  (BatchCall /\ pc = "resolved" /\ ret.k = "batch") =>
    LET positions == IdPositions(TheBatch, 1) IN
    /\ Len(ret.items) = Len(positions)
    /\ \A j \in 1..Len(positions) :
         /\ ret.items[j].id = TheBatch[positions[j]].id
         /\ ret.items[j] = items[positions[j]].value

\* the second request's handler completed before the first one's
C12_Witness ==
  /\ BatchCall /\ pc = "resolved" /\ ret.k = "batch"
  /\ Len(payload.items) = 2 /\ done = <<2, 1>>
  /\ payload.items[1].id = Num("3") /\ payload.items[2].id = Num("1")
  /\ Len(ret.items) = 2
  /\ ret.items[1].id = Num("3") /\ ret.items[2].id = Num("1")

\* C13: a well-formed batch made only of notifications, the empty batch
\* included, resolves to the empty array.
C13_NotificationOnlyBatch ==
  (WellFormedBatch /\ \A i \in 1..Len(TheBatch) : ~HasId(TheBatch[i])) =>
    /\ pc # "rejected"
    /\ pc = "resolved" => ret = Batch(<<>>)

\* C14: an array with a malformed element is answered with one Response
\* that is not an array, with id null and code -32600; no element is
\* dispatched and no handler runs.
C14_MalformedBatch ==
  (BatchCall /\ SomeElementMalformed) =>
    /\ pc = "resolved"
    /\ ret.k # "batch"
    /\ IsErrorResponse(ret, -32600)
    /\ ret.id = Null
    /\ ret.error.message = "Invalid Request: Invalid batch request"
    /\ items = <<>>
    /\ calls = <<>>

C14_Witness ==
  /\ BatchCall /\ pc = "resolved" /\ Len(payload.items) = 2
  /\ payload.items[1] = RawRequest(Str("2.0"), Str("greeting"), Arr("Dan"), Num("1"))
  /\ payload.items[2] = RawRequest(Str("1.0"), Str("greeting"), Arr("Dan"), Num("6"))
  /\ ret.k = "object" /\ ret.id = Null /\ ret.error.code = -32600
  /\ calls = <<>>

\* the Response of a request sent alone whose handler settles with `outcome`
AloneResponse(request, outcome) ==
  LET first == parseRequestAndCallMethod(methods, request) IN
  IF first.status = "pending"
    THEN afterCallMethod(methods, first, outcome).value
    ELSE first.value

\* C15: in a well-formed batch no item's failure touches the other items:
\* request() does not reject, every item with a registered method and valid
\* params has its handler invoked, and every item with an id receives the
\* Response it would receive if it were sent alone.
C15_SiblingIsolation ==
  WellFormedBatch =>
    /\ pc # "rejected"
    /\ \A i \in 1..Len(TheBatch) :
         (Registered(TheBatch[i]) /\ ParamsAccepted(TheBatch[i])) =>
           \E c \in 1..Len(calls) : calls[c].index = i
    /\ pc = "resolved" =>
         LET positions == IdPositions(TheBatch, 1) IN
         /\ Len(ret.items) = Len(positions)
         /\ \A j \in 1..Len(positions) :
              ret.items[j] = AloneResponse(TheBatch[positions[j]],
                                           items[positions[j]].outcome)

(***************************************************************************)
(* extend().                                                               *)
(***************************************************************************)
\* the definitions given to extend() on the way from the base server to
\* server i, the earliest first
RECURSIVE Chain(_)
Chain(i) ==
  IF origin[i].parent = 0 THEN <<>>
  ELSE Append(Chain(origin[i].parent), origin[i].defs)

\* server j was extended, in one or more steps, from server s
RECURSIVE IsExtensionOf(_, _)
IsExtensionOf(j, s) ==
  /\ origin[j].parent # 0
  /\ origin[j].parent = s \/ IsExtensionOf(origin[j].parent, s)

\* the definition of `name` after the extensions of `chain`: the one given
\* last, else the base server's, else undefined
RECURSIVE LastDefinition(_, _)
LastDefinition(chain, name) ==
  IF chain = <<>>
    THEN IF name \in DOMAIN ServerMethods THEN ServerMethods[name] ELSE Undefined
  ELSE IF name \in DOMAIN chain[Len(chain)] THEN chain[Len(chain)][name]
  ELSE LastDefinition(SubSeq(chain, 1, Len(chain) - 1), name)

\* A merged with B merged with ...: one set of definitions for a whole chain
RECURSIVE MergedDefs(_)
MergedDefs(chain) ==
  IF chain = <<>> THEN <<>> ELSE Merge(Head(chain), MergedDefs(Tail(chain)))

\* a single request with an id, settled, for a name that the server called
\* does not define and an extension of it does
AskedOriginalForNewName ==
  /\ pc \in {"resolved", "rejected"} /\ WellFormedSingle /\ HasId(TheRequest)
  /\ LastDefinition(Chain(target), TheRequest.method.v) = Undefined
  /\ \E j \in 1..Len(origin) :
       IsExtensionOf(j, target) /\ TheRequest.method.v \in DOMAIN origin[j].defs

\* C16: extend() returns a new server and leaves every existing server's
\* registry as it was; the server that was extended still answers -32601 for
\* a name only its extension defines.
C16_ExtendLeavesOriginal ==
  /\ [][/\ Len(servers') >= Len(servers)
        /\ \A i \in 1..Len(servers) : servers'[i] = servers[i]]_vars
  /\ [](AskedOriginalForNewName =>
          /\ pc = "resolved"
          /\ IsErrorResponse(ret, -32601)
          /\ ret.id = payload.id
          /\ calls = <<>>)

\* C17: extend() is right-biased and associative: a server reached through a
\* chain of extensions defines each name as the extension given last defines
\* it, else as the base server does; its registry is the base server's
\* extended once with the merged definitions of the chain; and a request is
\* served by the handler of that definition.
C17_ExtendRightBiased ==
  /\ \A i \in 1..Len(servers) :
       /\ DOMAIN servers[i] =
            DOMAIN ServerMethods
              \cup UNION {DOMAIN Chain(i)[j] : j \in 1..Len(Chain(i))}
       /\ \A name \in DOMAIN servers[i] :
            servers[i][name] = LastDefinition(Chain(i), name)
       /\ servers[i] = Merge(ServerMethods, MergedDefs(Chain(i)))
  /\ (pc = "resolved" /\ WellFormedSingle /\ HasId(TheRequest)
        /\ LastDefinition(Chain(target), TheRequest.method.v) # Undefined) =>
       LET definition == LastDefinition(Chain(target), TheRequest.method.v)
           checked == StandardValidate(definition.paramsSchema, TheRequest.params) IN
       IF checked.issues # NoIssues
         THEN calls = <<>> /\ IsErrorResponse(ret, -32602)
         ELSE /\ Len(calls) = 1
              /\ calls[1].params = checked.value
              /\ items[1].outcome \in Handler(definition.handler, checked.value)
              /\ (items[1].outcome.k = "return"
                   /\ StandardValidate(definition.resultSchema,
                                       items[1].outcome.v).issues = NoIssues) =>
                   ret.result = items[1].outcome.v /\ ret.error = Undefined

\* base.extend(A).extend(B) serves newMethod with B's handler
C17_Witness ==
  /\ Len(servers) = 3 /\ target = 3
  /\ origin[2] = [parent |-> 1, defs |-> DefsA]
  /\ origin[3] = [parent |-> 2, defs |-> DefsB]
  /\ pc = "resolved" /\ payload.k = "object"
  /\ payload.method = Str("newMethod") /\ payload.id = Num("1")
  /\ ret.result = Str("Goodbye, Dan!")
  /\ servers[3] = Merge(ServerMethods, Merge(DefsA, DefsB))

(***************************************************************************)
(* Client calls.                                                           *)
(***************************************************************************)
SingleClientCall == cpc # "idle" /\ call.k = "single"

BatchClientCall == cpc # "idle" /\ call.k = "batchCall"

\* sendRequest has resolved and the call has run to its end
GotReply == cpc \in {"resolved", "rejected"} /\ reply # Undefined

WellFormedReply == JSONRPCResponseSchema(reply).issues = NoIssues

WellFormedBatchReply == JSONRPCResponseBatchSchema(reply).issues = NoIssues

\* C18: in every validation mode, when the well-formed Response to a single
\* call carries an error member, the call rejects with a typed error whose
\* code, message and data are those of the ErrorObject received; no result
\* is returned and no result validation error is raised.
C18_ErrorResponseRejects ==
  (SingleClientCall /\ GotReply /\ WellFormedReply /\ reply.error # Undefined) =>
    /\ cpc = "rejected"
    /\ cret.k = "JSONRPCError"
    /\ cret.code = reply.error.code
    /\ cret.message = reply.error.message
    /\ cret.data = reply.error.data

\* a raw client receives a Response that carries both an error and a result
C18_Witness ==
  /\ SingleClientCall /\ GotReply /\ clients[cl] = Options("false", "false")
  /\ reply = Response(Str("Hello, Dan!"), ErrorObject(-32602, "Invalid params", Undefined),
                      Null)
  /\ cpc = "rejected" /\ cret = JSONRPCError(-32602, "Invalid params", Undefined)

\* C19: in every validation mode a reply that is not a well-formed Response
\* makes a single call reject with a ParseError (-32700), and a reply to
\* batch() that is not an array of well-formed Responses makes the whole
\* batch call reject with a ParseError.
C19_MalformedReplyIsParseError ==
  /\ (SingleClientCall /\ GotReply /\ ~WellFormedReply) =>
       /\ cpc = "rejected"
       /\ cret.k = "JSONRPCError"
       /\ cret.code = -32700
  /\ (BatchClientCall /\ GotReply /\ ~WellFormedBatchReply) =>
       /\ cpc = "rejected"
       /\ cret.k = "JSONRPCError"
       /\ cret.code = -32700

\* a raw client's batch is answered with a single error object
C19_Witness ==
  /\ BatchClientCall /\ GotReply /\ clients[cl] = Options("false", "false")
  /\ Len(call.entries) = 1
  /\ reply = Response(Undefined, ErrorObject(-32600, "Invalid Request", Undefined), Null)
  /\ cpc = "rejected" /\ cret.code = -32700

\* whether the claim's modes validate params: the default client does, raw()
\* and rawParams() clients do not, validating() clients do, and rawResults()
\* leaves it as it was
RECURSIVE ValidatesParams(_)
ValidatesParams(c) ==
  IF corigin[c].parent = 0 THEN TRUE
  ELSE IF corigin[c].variant \in {"raw", "rawParams"} THEN FALSE
  ELSE IF corigin[c].variant = "validating" THEN TRUE
  ELSE ValidatesParams(corigin[c].parent)

\* the params of a ctx call or of a single call fail the params schema
ParamsRefused(methodName, params) ==
  StandardValidate(ClientDefs[methodName].paramsSchema, params).issues # NoIssues

\* the one request sent carries the caller's params
SentUnchanged ==
  /\ Len(sent) = 1
  /\ IF call.k = "single"
       THEN /\ sent[1].k = "object"
            /\ sent[1].method = Str(call.method)
            /\ sent[1].params = call.params
       ELSE /\ sent[1].k = "batch"
            /\ Len(sent[1].items) = Len(call.entries)
            /\ \A i \in 1..Len(call.entries) :
                 /\ sent[1].items[i].method = Str(call.entries[i].method)
                 /\ sent[1].items[i].params = call.entries[i].params

\* the params of the call: those of the single call, or of every ctx call
CallParams ==
  IF call.k = "single" THEN {[method |-> call.method, params |-> call.params]}
  ELSE {[method |-> call.entries[i].method, params |-> call.entries[i].params] :
          i \in 1..Len(call.entries)}

NothingSent == cpc = "rejected" /\ sent = <<>> /\ reply = Undefined

RECURSIVE ValidatesResults(_)
ValidatesResults(c) ==
  IF corigin[c].parent = 0 THEN TRUE
  ELSE IF corigin[c].variant \in {"raw", "rawResults"} THEN FALSE
  ELSE IF corigin[c].variant = "validating" THEN TRUE
  ELSE ValidatesResults(corigin[c].parent)

\* a received result fails the result schema of the method
ResultRefused(methodName, result) ==
  StandardValidate(ClientDefs[methodName].resultSchema, result).issues # NoIssues

\* the batch config of the batch call made: one [key, methodDef, request] per
\* local key
TheConfig == batchConfig(clients[cl], ClientDefs, call.entries).v

\* the Responses of a well-formed batch reply
TheResponses == JSONRPCResponseBatchSchema(reply).value.items

\* the i-th Response is the last one received for the request of the c-th key
LastResponseFor(c, i) ==
  /\ TheResponses[i].id = TheConfig[c].request.id
  /\ \A j \in (i + 1)..Len(TheResponses) : TheResponses[j].id # TheResponses[i].id

\* the batch call resolved with a record of results
BatchResolved == BatchClientCall /\ GotReply /\ cpc = "resolved"

Flags(options) ==
  <<Enabled(options.validateParams), Enabled(options.validateResults)>>

\* two clients build the same request for every call and make the same of
\* every reply
SameBehaviour(o1, o2) ==
  /\ \A m \in DOMAIN ClientDefs, p \in ClientParams :
       callMethodRequest(o1, ClientDefs, m, p, UUID(1))
         = callMethodRequest(o2, ClientDefs, m, p, UUID(1))
  /\ \A m \in DOMAIN ClientDefs, r \in SingleReplies :
       callMethodResponse(o1, ClientDefs, m, r) = callMethodResponse(o2, ClientDefs, m, r)

\* client d is clients[c][variant]()
IsVariantOf(d, c, variant) == corigin[d] = [parent |-> c, variant |-> variant]

\* client d is x.s().t() for some client x and switches s and t
IsTwoSwitches(d) ==
  /\ corigin[d].parent # 0
  /\ corigin[corigin[d].parent].parent # 0

\* x.raw().validating() is equivalent to the default client
RawThenValidatingIsDefault ==
  \A c, d \in 1..Len(clients) :
    (IsVariantOf(d, c, "validating") /\ corigin[c].variant = "raw") =>
      /\ Flags(clients[d]) = Flags(DefaultOptions)
      /\ SameBehaviour(clients[d], DefaultOptions)

\* x.s().s() has the flag pair of x.s()
SwitchesIdempotent ==
  \A c, d \in 1..Len(clients), s \in Variants :
    (IsVariantOf(d, c, s) /\ corigin[c].variant = s) =>
      Flags(clients[d]) = Flags(clients[c])

\* x.s().t() and x.t().s() have the same flag pair, for s and t in `switches`
SwitchesCommute(switches) ==
  \A d1, d2 \in 1..Len(clients) :
    (/\ IsTwoSwitches(d1) /\ IsTwoSwitches(d2)
     /\ corigin[corigin[d1].parent].parent = corigin[corigin[d2].parent].parent
     /\ corigin[d1].variant \in switches /\ corigin[d2].variant \in switches
     /\ corigin[corigin[d1].parent].variant = corigin[d2].variant
     /\ corigin[corigin[d2].parent].variant = corigin[d1].variant) =>
      Flags(clients[d1]) = Flags(clients[d2])

\* C22: as stated: raw() followed by validating() gives a client equivalent
\* to the default one, every switch is idempotent, and any two of the four
\* switches commute.
C22_ModeAlgebra ==
  /\ RawThenValidatingIsDefault
  /\ SwitchesIdempotent
  /\ SwitchesCommute(Variants)

\* C22, amended: rawParams, rawResults and raw commute with one another;
\* validating() does not commute with them: of validating() and another
\* switch, the one called last decides both flags it sets.
C22_ModeAlgebraLastWins ==
  /\ RawThenValidatingIsDefault
  /\ SwitchesIdempotent
  /\ SwitchesCommute({"rawParams", "rawResults", "raw"})
  /\ \A c, d \in 1..Len(clients), s \in Variants :
       /\ (IsVariantOf(d, c, "validating") /\ corigin[c].variant = s) =>
            Flags(clients[d]) = <<TRUE, TRUE>>
       /\ (IsVariantOf(d, c, s) /\ corigin[c].variant = "validating") =>
            Flags(clients[d]) = <<s \notin {"rawParams", "raw"}, s \notin {"rawResults", "raw"}>>

\* the default client switched to raw and then to validating, and the other
\* way round: the first validates both sides, the second neither
C22_Witness ==
  /\ Len(clients) = 5
  /\ IsVariantOf(2, 1, "raw") /\ IsVariantOf(3, 2, "validating")
  /\ IsVariantOf(4, 1, "validating") /\ IsVariantOf(5, 4, "raw")
  /\ Flags(clients[3]) = <<TRUE, TRUE>> /\ Flags(clients[5]) = <<FALSE, FALSE>>

\* C23: a mode switch never changes a client that exists: every client
\* keeps its flags, its contracts and its transport function over every
\* step, and the client a switch returns holds the contracts and the
\* transport function of the client it was called on.
C23_SwitchLeavesClient ==
  [][/\ Len(clients') >= Len(clients)
     /\ \A i \in 1..Len(clients) :
          /\ clients'[i] = clients[i]
          /\ bindings'[i] = bindings[i]
     /\ \A d \in (Len(clients) + 1)..Len(clients') :
          corigin'[d].parent # 0 => bindings'[d] = bindings'[corigin'[d].parent]]_vars

\* validating() was called on the raw client generated from an extended
\* server: the raw client is still raw, and both hold the same contracts and
\* the same transport function
C23_Witness ==
  /\ Len(clients) = 4 /\ IsVariantOf(4, 3, "validating")
  /\ Flags(clients[3]) = <<FALSE, FALSE>> /\ Flags(clients[4]) = <<TRUE, TRUE>>
  /\ bindings[4] = bindings[3]
  /\ bindings[3].sendRequest = "forward"
  /\ "newMethod" \in DOMAIN bindings[3].defs

\* C24: server.createClient(send) returns a client that has one callable
\* method per method name of the server's registry and validates neither
\* params nor results; validating() on it gives a client that validates both.
C24_GeneratedClientIsRaw ==
  (returned # Undefined) =>
    /\ returned.k = "client"
    /\ DOMAIN bindings[returned.v].defs = DOMAIN servers[returned.server]
    /\ \A name \in DOMAIN servers[returned.server] :
         /\ clientMember(bindings[returned.v].defs, name).k = "method"
         /\ bindings[returned.v].defs[name]
              = ClientMethodDef(servers[returned.server][name].paramsSchema,
                                servers[returned.server][name].resultSchema)
    /\ Flags(clients[returned.v]) = <<FALSE, FALSE>>
    /\ \A d \in 1..Len(clients) :
         IsVariantOf(d, returned.v, "validating") => Flags(clients[d]) = <<TRUE, TRUE>>

(***************************************************************************)
(* Client: correlation of a batch.                                         *)
(***************************************************************************)
\* the ids of the requests of the batch call made
RequestIds == {TheConfig[c].request.id : c \in 1..Len(TheConfig)}

\* the reply is an array of Responses, each with the id of a request sent
AllMatched ==
  /\ WellFormedBatchReply
  /\ \A i \in 1..Len(TheResponses) : TheResponses[i].id \in RequestIds

\* the reply with its elements in the order f
Permuted(f) == Batch([i \in 1..Len(reply.items) |-> reply.items[f[i]]])

\* C25: batch() associates Responses with local keys through ids only: when
\* the call resolved, every permutation of the response array received gives
\* the same record.
C25_PermutationInvariant ==
  (BatchResolved /\ WellFormedBatchReply) =>
    \A f \in Permutations(1..Len(reply.items)) :
      batchResponse(clients[cl], TheConfig, Permuted(f)) = Return(cret)

\* C26: a Response whose id is the generated id of no request of the batch
\* (the id null included) makes the whole batch call reject with
\* InvalidRequest (-32600); no record is returned.
C26_UnmatchedIdRejects ==
  (BatchClientCall /\ GotReply /\ WellFormedBatchReply /\ ~AllMatched) =>
    /\ cpc = "rejected"
    /\ cret.k = "JSONRPCError"
    /\ cret.code = -32600

\* a batch of two is answered with the Response of the first request and a
\* Response whose id is null
C26_Witness ==
  /\ BatchClientCall /\ GotReply /\ Len(call.entries) = 2
  /\ call.entries[1].key = "a" /\ call.entries[2].key = "b"
  /\ reply = Batch(<<Response(Str("Hello, Dan!"), Undefined, UUID(1)),
                     Response(Str("ok"), Undefined, Null)>>)
  /\ cpc = "rejected" /\ cret.code = -32600

\* what the c-th local key must map to, given the Response received for it
ExpectedEntry(c, response) ==
  IF response.error # Undefined
    THEN [ok |-> FALSE,
          error |-> JSONRPCError(response.error.code, response.error.message,
                                 response.error.data)]
  ELSE IF ResultRefused(call.entries[c].method, response.result)
    THEN [ok |-> FALSE,
          error |-> InternalError("Invalid result in batch result for entry "
                                    \o TheConfig[c].key,
                                  [k |-> "record",
                                   error |-> PlainError(StandardValidate(
                                     ClientDefs[call.entries[c].method].resultSchema,
                                     response.result).issues),
                                   result |-> response.result])]
  ELSE [ok |-> TRUE, value |-> response.result]

\* C27: a Response that carries an error, or whose result fails the result
\* schema, makes its own local key {ok: false, error} and nothing else: the
\* batch call resolves, and every local key maps to what its own Response
\* says.
C27_ItemIsolation ==
  (BatchClientCall /\ GotReply /\ AllMatched) =>
    /\ cpc = "resolved"
    /\ \A c \in 1..Len(TheConfig), i \in 1..Len(TheResponses) :
         (LastResponseFor(c, i) /\ localRequestId(TheConfig, TheResponses[i].id)
                                    = Str(TheConfig[c].key)) =>
           cret.v[TheConfig[c].key] = ExpectedEntry(c, TheResponses[i])

\* C28: when batch() resolves, the record has exactly the local keys of the
\* builder, each mapped to {ok: true, value} or {ok: false, error}.
C28_EveryKeyPresent ==
  BatchResolved =>
    /\ DOMAIN cret.v = {call.entries[i].key : i \in 1..Len(call.entries)}
    /\ \A key \in DOMAIN cret.v :
         \/ cret.v[key].ok /\ DOMAIN cret.v[key] = {"ok", "value"}
         \/ ~cret.v[key].ok /\ DOMAIN cret.v[key] = {"ok", "error"}

\* C29: batch() hands the transport one array, once, holding the request of
\* every local key in key order; when a ctx call of the builder throws,
\* nothing has been sent; the record is made from the one reply awaited.
C29_OneTransportCall ==
  BatchClientCall =>
    /\ IF batchConfig(clients[cl], ClientDefs, call.entries).k = "throw"
         THEN NothingSent
         ELSE sent = <<Batch([c \in 1..Len(TheConfig) |-> TheConfig[c].request])>>
    /\ cpc = "resolved" => reply # Undefined

\* a builder with two keys: one array with two requests was sent, once, and
\* the call resolved from the one reply
C29_Witness ==
  /\ BatchResolved /\ Len(call.entries) = 2
  /\ Len(sent) = 1 /\ sent[1].k = "batch" /\ Len(sent[1].items) = 2
  /\ sent[1].items[1].method = Str(call.entries[1].method)
  /\ sent[1].items[2].method = Str(call.entries[2].method)
  /\ DOMAIN cret.v = {"a", "b"}

\* C30: the ids of the requests of an outgoing batch are pairwise distinct,
\* for every builder.
C30_DistinctIds ==
  \A n \in 1..Len(sent) :
    sent[n].k = "batch" =>
      \A i, j \in 1..Len(sent[n].items) :
        i # j => sent[n].items[i].id # sent[n].items[j].id

(***************************************************************************)
(* Round trip through a generated client.                                  *)
(***************************************************************************)
\* a call of a method on a client that forwards to its server has ended
RoundTripCall ==
  cpc \in {"resolved", "rejected"} /\ call.k = "single" /\ cl \in ForwardClients

\* the registry of the server that the called client forwards to
TheServer == servers[ForwardServer(bindings[cl].sendRequest)]

\* the code a thrown value is reported with
ErrorCode(e) == IF e.k = "JSONRPCError" THEN e.code ELSE -32603

\* the server-side pipeline for a method, an input and the outcome of the
\* handler: the validated result, or the code of the error
Pipeline(method, params, outcome) ==
  LET checked == safeParse(method.paramsSchema, params) IN
  IF checked.k = "throw" THEN [k |-> "throw", v |-> ErrorCode(checked.v)]
  ELSE IF checked.v.issues # NoIssues THEN [k |-> "throw", v |-> -32602]
  ELSE IF outcome.k = "throw" THEN [k |-> "throw", v |-> ErrorCode(outcome.v)]
  ELSE LET result == safeParse(method.resultSchema, outcome.v) IN
       IF result.k = "throw" THEN [k |-> "throw", v |-> ErrorCode(result.v)]
       ELSE IF result.v.issues # NoIssues THEN [k |-> "throw", v |-> -32603]
       ELSE Return(result.v.data)

\* the outcome of the client call, in the same terms
CallOutcome ==
  IF cpc = "resolved" THEN Return(cret)
  ELSE [k |-> "throw", v |-> IF cret.k = "JSONRPCError" THEN cret.code ELSE 0]

\* the input of the call is one that the method's params schema accepts
InputAccepted ==
  /\ safeParse(TheServer[call.method].paramsSchema, call.params).k = "return"
  /\ safeParse(TheServer[call.method].paramsSchema, call.params).v.issues = NoIssues

\* C31: what server.createClient returns is a client on which every method
\* of the registry can be called, and a call of a method on it, with an input
\* that the params schema accepts and a transport that forwards to
\* server.request(), ends as the server-side pipeline does for that input: it
\* resolves to the validated result of the handler, which was invoked once
\* with the validated params, and rejects with the same error code when the
\* handler fails.
C31_RoundTrip ==
  /\ (returned # Undefined) =>
       /\ returned.k = "client"
       /\ \A name \in DOMAIN servers[returned.server] :
            clientMember(bindings[returned.v].defs, name).k = "method"
  /\ (RoundTripCall /\ Flags(clients[cl]) = <<FALSE, FALSE>> /\ InputAccepted) =>
       /\ Len(items) = 1 /\ Len(calls) = 1
       /\ items[1].outcome \in
            Handler(TheServer[call.method].handler,
                    safeParse(TheServer[call.method].paramsSchema, call.params).v.data)
       /\ CallOutcome = Pipeline(TheServer[call.method], call.params, items[1].outcome)

\* the output of a schema for an input it accepts
Output(schema, input) == StandardValidate(schema, input).value

\* the request of the call reached the transport function
RequestSent == call.k = "single" /\ cl \in ForwardClients /\ Len(sent) = 1

\* the handler of the called method was invoked, and it returned
HandlerInvoked == RequestSent /\ Len(calls) = 1
HandlerReturned ==
  HandlerInvoked /\ Len(items) = 1 /\ items[1].outcome.k = "return"

\* C32: a call on a raw client that forwards to its server has each schema
\* applied once, on the server: the request carries the params as given, the
\* handler receives the params schema's output for them, and the call
\* resolves to the result schema's output for the value the handler returned.
\* A call on a client that validates both sides has each schema applied
\* twice: the request carries the params schema's output, the handler
\* receives the output of the params schema for that output, and the call
\* resolves to the output of the result schema for the server's result.
C32_SchemasAppliedOnce ==
  /\ (RequestSent /\ Flags(clients[cl]) = <<FALSE, FALSE>>) =>
       /\ sent[1].params = call.params
       /\ HandlerInvoked =>
            calls[1].params = Output(TheServer[call.method].paramsSchema, call.params)
       /\ cpc = "resolved" =>
            /\ HandlerReturned
            /\ cret = Output(TheServer[call.method].resultSchema, items[1].outcome.v)
  /\ (RequestSent /\ Flags(clients[cl]) = <<TRUE, TRUE>>) =>
       /\ sent[1].params = Output(TheServer[call.method].paramsSchema, call.params)
       /\ HandlerInvoked =>
            calls[1].params =
              Output(TheServer[call.method].paramsSchema,
                     Output(TheServer[call.method].paramsSchema, call.params))
       /\ cpc = "resolved" =>
            /\ HandlerReturned
            /\ cret = Output(TheServer[call.method].resultSchema,
                             Output(TheServer[call.method].resultSchema,
                                    items[1].outcome.v))

\* normalize(['Dan']) on the generated client: the handler got ['Dan!'] and
\* the caller 'Result: Dan!'
C32_Witness ==
  /\ RequestSent /\ Flags(clients[cl]) = <<FALSE, FALSE>> /\ cpc = "resolved"
  /\ call.method = "normalize" /\ call.params = Arr("Dan")
  /\ calls[1].params = Arr("Dan!")
  /\ cret = Str("Result: Dan!")

\* normalize(['Dan']) on a validating client made from the generated one
TwiceApplied ==
  /\ RequestSent /\ Flags(clients[cl]) = <<TRUE, TRUE>> /\ cpc = "resolved"
  /\ call.method = "normalize" /\ call.params = Arr("Dan")
  /\ calls[1].params = Arr("Dan!!")
  /\ cret = Str("Result: Result: Dan!!")

(***************************************************************************)
(* Validation adapter.                                                     *)
(***************************************************************************)
\* the schemas of the registries of the servers created so far
RegistrySchemas ==
  UNION {UNION {{servers[s][name].paramsSchema, servers[s][name].resultSchema} :
                  name \in DOMAIN servers[s]} : s \in 1..Len(servers)}

\* the values that the schemas are asked to validate
AdapterInputs == RoundTripParams \cup {Str("Hello, Dan!"), Bool("true"), Num("123")}

\* parse returns the output of the schema for an input the schema accepts
ParseReturnsOutput(schema, input) ==
  StandardValidate(schema, input).issues = NoIssues =>
    parse(schema, input) = Return(Output(schema, input))

\* parse throws a typed InternalError for an input the schema refuses
ParseThrowsInternalError(schema, input) ==
  StandardValidate(schema, input).issues # NoIssues =>
    /\ parse(schema, input).k = "throw"
    /\ parse(schema, input).v.k = "JSONRPCError"
    /\ Member(parse(schema, input).v, "code") = -32603

\* safeParse returns the output or the issues, and never throws
SafeParseEitherOr(schema, input) ==
  /\ safeParse(schema, input).k = "return"
  /\ IF StandardValidate(schema, input).issues = NoIssues
       THEN /\ safeParse(schema, input).v.success
            /\ safeParse(schema, input).v.data = Output(schema, input)
            /\ safeParse(schema, input).v.issues = NoIssues
       ELSE /\ ~safeParse(schema, input).v.success
            /\ safeParse(schema, input).v.data = Undefined
            /\ safeParse(schema, input).v.issues = StandardValidate(schema, input).issues

\* C33: for a schema that validates synchronously, parse returns the
\* schema's output when validation succeeds and throws a typed InternalError
\* (code -32603) carrying the issues when it fails; safeParse never throws on
\* a validation failure and returns either the data or the issues, never
\* both.
C33_AdapterContract ==
  \A schema \in RegistrySchemas, input \in AdapterInputs :
    ~schema.async =>
      /\ ParseReturnsOutput(schema, input)
      /\ ParseThrowsInternalError(schema, input)
      /\ SafeParseEitherOr(schema, input)

\* the definition of the method that item i of the dispatched requests names
ItemMethod(i) == Lookup(methods, items[i].request.method.v)

\* C34: both adapter operations throw the InternalError (code -32603) that
\* says asynchronous validation is not supported as soon as a schema's
\* validate returns a pending result.  On the server a request for a method
\* whose params schema is asynchronous fails with that error without the
\* handler being invoked, and the result of a method whose result schema is
\* asynchronous is answered with that error.
C34_AsyncSchemaFailsFast ==
  /\ AsyncValidationError.code = -32603
  /\ \A schema \in RegistrySchemas, input \in AdapterInputs :
       schema.async =>
         /\ parse(schema, input) = Throw(AsyncValidationError)
         /\ safeParse(schema, input) = Throw(AsyncValidationError)
  /\ \A i \in 1..Len(items) :
       /\ ItemMethod(i).paramsSchema.async =>
            /\ items[i].status = "rejected"
            /\ items[i].value = AsyncValidationError
            /\ \A j \in 1..Len(calls) : calls[j].index # i
       /\ (ItemMethod(i).resultSchema.async /\ items[i].outcome.k = "return") =>
            /\ items[i].status = "fulfilled"
            /\ IsErrorResponse(items[i].value, -32603)
            /\ items[i].value.error.message = AsyncValidationError.message

\* asyncParams(['Dan']) was forwarded to the server: its request() rejected
\* with the error and no handler was invoked
C34_Witness ==
  /\ pc = "rejected" /\ Len(items) = 1
  /\ items[1].request.method = Str("asyncParams")
  /\ items[1].request.params = Arr("Dan")
  /\ ret = AsyncValidationError
  /\ calls = <<>>

\* asyncResult(['Dan']) was forwarded to the server and answered
AsyncResultAnswered ==
  /\ pc = "resolved" /\ Len(items) = 1
  /\ items[1].request.method = Str("asyncResult")
  /\ items[1].outcome = Return(Str("Hello, Dan!"))
  /\ IsErrorResponse(ret, -32603)

(***************************************************************************)
(* Error taxonomy.                                                         *)
(***************************************************************************)
\* the reserved code and the standard message of each constructor
ReservedCode(name) ==
  CASE name = "ParseError" -> -32700
    [] name = "InvalidRequest" -> -32600
    [] name = "MethodNotFound" -> -32601
    [] name = "InvalidParams" -> -32602
    [] name = "InternalError" -> -32603

StandardMessage(name) ==
  CASE name = "ParseError" -> "Parse error"
    [] name = "InvalidRequest" -> "Invalid Request"
    [] name = "MethodNotFound" -> "Method not found"
    [] name = "InvalidParams" -> "Invalid params"
    [] name = "InternalError" -> "Internal error"

\* a constructor was called
ConstructorCalled == payload.k = "ErrorConfig"

\* a detail is given: a message that is not the empty string
DetailGiven == payload.message # Undefined /\ payload.message # Str("")

InvocationsOf(i) == {j \in 1..Len(calls) : calls[j].index = i}

\* the payload fails the Request schema, or the batch schema
MalformedPayload ==
  \/ SingleCall /\ ~WellFormedSingle
  \/ BatchCall /\ (SomeElementMalformed \/ payload.items = <<>>)

\* C36: the handler of a request is invoked at most once and settles at most
\* once; it is not invoked when the payload is malformed, when the method is
\* not registered or when the params fail validation; when it is invoked, it
\* is with the output of the params validation; and a result is validated
\* and answered only when the handler has returned.
C36_HandlerAtMostOnce ==
  /\ \A i \in 1..Len(items) : Cardinality(InvocationsOf(i)) <= 1
  /\ \A j, k \in 1..Len(done) : done[j] = done[k] => j = k
  /\ MalformedPayload => calls = <<>>
  /\ \A i \in 1..Len(items) :
       /\ (~Registered(items[i].request) \/ ~ParamsAccepted(items[i].request)) =>
            /\ InvocationsOf(i) = {}
            /\ items[i].outcome = NoOutcome
       /\ \A j \in InvocationsOf(i) :
            /\ Registered(items[i].request)
            /\ ParamsAccepted(items[i].request)
            /\ calls[j].method = items[i].request.method.v
            /\ calls[j].params =
                 Output(methods[items[i].request.method.v].paramsSchema,
                        items[i].request.params)
       /\ items[i].outcome # NoOutcome => InvocationsOf(i) # {}
       /\ items[i].status = "pending" =>
            /\ items[i].outcome = NoOutcome
            /\ items[i].value = Undefined
       /\ (items[i].status = "fulfilled" /\ items[i].value # Undefined
              /\ items[i].value.error = Undefined) =>
            /\ items[i].outcome.k = "return"
            /\ ResultAccepted(items[i].request, items[i].outcome.v)

\* a batch of a request with valid params and one with invalid params has
\* resolved: one handler invocation, for the first
C36_Witness ==
  /\ pc = "resolved" /\ WellFormedBatch /\ Len(items) = 2
  /\ items[1].request.params = Arr("Dan") /\ items[2].request.params = Arr("123")
  /\ items[1].request.method = Str("greeting") /\ items[2].request.method = Str("greeting")
  /\ Len(calls) = 1 /\ calls[1].index = 1
  /\ done = <<1>>

\* item i passes the lookup and the params validation
Eligible(i) == Registered(items[i].request) /\ ParamsAccepted(items[i].request)

\* C37: in a well-formed batch the handler of every item that passes lookup
\* and params validation has been invoked as soon as the batch is dispatched,
\* whether or not the handler of any other item has settled; and every
\* handler that has not settled can settle next, whatever the others do.
C37_ConcurrentDispatch ==
  WellFormedBatch =>
    \A i \in 1..Len(items) :
      /\ Eligible(i) => InvocationsOf(i) # {}
      /\ items[i].status = "pending" => ENABLED HandlerSettle(i)

\* both handlers of a batch were invoked, and the second has settled while
\* the first is still running
C37_Witness ==
  /\ WellFormedBatch /\ pc = "pending" /\ Len(items) = 2
  /\ Eligible(1) /\ Eligible(2)
  /\ Len(calls) = 2
  /\ done = <<2>>
  /\ items[1].status = "pending"

\* the handlers of a batch settled in the order opposite to their dispatch
SettledInReverse ==
  /\ WellFormedBatch /\ pc = "resolved" /\ Len(items) = 2
  /\ done = <<2, 1>>

\* no handler that was invoked is still running
AllHandlersSettled ==
  \A i \in 1..Len(items) :
    /\ items[i].status # "pending"
    /\ InvocationsOf(i) # {} => items[i].outcome # NoOutcome

\* request() has returned: a Response, an array of Responses, or null
Returned == pc = "resolved"

\* C38: request() returns, for a batch and for a single request or
\* notification alike, only when the handler of every item has settled,
\* those of notifications included; and when every handler settles in the
\* end, request() returns for every well-formed batch.
C38_ResolvesAfterHandlers ==
  /\ [](Returned => AllHandlersSettled)
  /\ (WellFormedBatch ~> Returned)

(***************************************************************************)
(* Client: params refused in a batch context, and the id of a reply.       *)
(***************************************************************************)
\* the ctx calls of the builder whose params fail the params schema
RefusedEntries ==
  {i \in 1..Len(call.entries) :
     ParamsRefused(call.entries[i].method, call.entries[i].params)}

\* the first of them
FirstRefused == CHOOSE i \in RefusedEntries : \A j \in RefusedEntries : i <= j

\* the InvalidParams error that names the batch method and the cause
InvalidBatchParams(methodName, issues) ==
  InvalidParams("Invalid params for batch method " \o methodName \o ": Error: " \o issues,
                Undefined)

\* C39: when a client that validates params is given a batch builder one of
\* whose ctx calls has params that fail the method's params schema, batch()
\* fails with a typed InvalidParams error (code -32602) that names the batch
\* method, and nothing is sent.
C39_BatchParamsRefused ==
  (BatchClientCall /\ ValidatesParams(cl) /\ RefusedEntries # {}) =>
    /\ NothingSent
    /\ cret.k = "JSONRPCError"
    /\ Member(cret, "code") = -32602
    /\ cret = InvalidBatchParams(
                call.entries[FirstRefused].method,
                StandardValidate(ClientDefs[call.entries[FirstRefused].method].paramsSchema,
                                 call.entries[FirstRefused].params).issues)

\* what the code does in that case: the error of parse leaves batch() as it is
BatchParamsRefusedPlain ==
  (BatchClientCall /\ ValidatesParams(cl) /\ RefusedEntries # {}) =>
    /\ NothingSent
    /\ cret = PlainError(
                StandardValidate(ClientDefs[call.entries[FirstRefused].method].paramsSchema,
                                 call.entries[FirstRefused].params).issues)

\* the reply with the id that the call generated for its request
WithRequestId(response) == [response EXCEPT !.id = sent[1].id]

\* C40: the outcome of a single call that received a well-formed Response
\* is the one it would have with the id of its request in the Response: an
\* error member rejects the call with that error, and otherwise the result
\* is what the call resolves to or what result validation is applied to,
\* whatever the id of the Response.
C40_IdNotCompared ==
  (SingleClientCall /\ GotReply /\ WellFormedReply) =>
    /\ [k |-> IF cpc = "rejected" THEN "throw" ELSE "return", v |-> cret]
         = callMethodResponse(clients[cl], bindings[cl].defs, call.method,
                              WithRequestId(reply))
    /\ reply.error # Undefined =>
         /\ cpc = "rejected"
         /\ cret = JSONRPCError(reply.error.code, reply.error.message, reply.error.data)
    /\ (reply.error = Undefined /\ ~ValidatesResults(cl)) =>
         /\ cpc = "resolved"
         /\ cret = reply.result

\* greeting(['Dan']) was sent with the first generated id and answered with
\* a Response that carries another id: the call resolved to its result
C40_Witness ==
  /\ SingleClientCall /\ GotReply /\ WellFormedReply
  /\ sent[1].id = UUID(1)
  /\ reply.id = UUID(2)
  /\ cpc = "resolved"
  /\ cret = Str("Hello, Andrea!")

\* the same with a Response whose id is null
NullIdAccepted ==
  /\ SingleClientCall /\ GotReply /\ WellFormedReply
  /\ reply.id = Null /\ reply.error = Undefined
  /\ cpc = "resolved"
  /\ cret = reply.result
====
